---- MODULE Spec2Model ----
(***************************************************************************)
(* The lane-runner simulation core: the game-state store (src/store.ts)     *)
(* and the LevelManager component (src/components/World/LevelManager.tsx),  *)
(* its reset effect and its per-frame tick.                                 *)
(*                                                                         *)
(* Numbers.  World coordinates are reals in the source.  Here a coordinate  *)
(* is an integer number of grid cells, Scale cells to one world unit, so    *)
(* that every constant of the source (2.2, 0.9, 1.25, ...) and every        *)
(* per-tick step for the elapsed times in Deltas is an exact integer.       *)
(* Elapsed time is in milliseconds.  The world speed is kept in units of    *)
(* START_SPEED / 10 = 1.125 world units per second, the step of             *)
(* calculateSpeed, so START_SPEED is 10 and RUN_SPEED_BASE would be 20.     *)
(* A Math.random() value is the percent cell r in 0..99 it falls in; the    *)
(* source compares rolls only with whole percents, so "roll < c" is r < c   *)
(* and "roll > c" is r >= c.  The two lerps of the source (magnet pull,     *)
(* drone tracking) are rounded to the grid away from zero, which keeps      *)
(* their direction and never oversteps the target.                          *)
(***************************************************************************)
EXTENDS Integers, Sequences, FiniteSets, TLC

VARIABLES
    store,              \* the zustand store: src/store.ts
    props,              \* the store values the last render of LevelManager closed over
    objects,            \* objectsRef.current: the entity registry
    prevStatus,         \* prevStatus.current
    prevLevel,          \* prevLevel.current
    distanceTraveled,   \* distanceTraveled.current
    nextLetterDistance, \* nextLetterDistance.current
    playerPos,          \* world position of the player object, owned by the host,
                        \* and whether playerObjRef holds the object
    nextId,             \* stands for uuidv4(): the next fresh identifier
    tickLog,            \* history: what the last frame callback did
    lastCall            \* history: the last call of the store made by the host

vars == <<store, props, objects, prevStatus, prevLevel, distanceTraveled,
          nextLetterDistance, playerPos, nextId, tickLog, lastCall>>

----------------------------------------------------------------------------
(* Bounds of the model *)

MaxTicks == 3

\* the registry sizes explored: a tick that would leave more entities is not taken
MaxObjects == 4

\* the calls of the store by the host that are explored
MaxCalls == 2
ShopCalls == 3

\* grid cells per world unit
Scale == 32 * 10

\* elapsed host frame times offered to a tick, in ms (100 is above the clamp)
Deltas == {0, 25, 100}

Rolls == 0 .. 99

Min(a, b) == IF a < b THEN a ELSE b
Max(a, b) == IF a > b THEN a ELSE b
Abs(a) == IF a < 0 THEN -a ELSE a

\* d * num / den rounded to the grid away from zero (0 stays 0)
RoundAway(d, num, den) ==
    IF d >= 0 THEN (d * num + den - 1) \div den
              ELSE -(((-d) * num + den - 1) \div den)

----------------------------------------------------------------------------
(* types.ts (src/unnamed/part_001) *)

LANE_WIDTH == (22 * Scale) \div 10
SPAWN_DISTANCE == 120 * Scale
REMOVE_DISTANCE == 20 * Scale

DamageTypes == {"OBSTACLE", "ALIEN", "MISSILE", "DRONE", "LASER_GATE",
                "BARRIER", "SPIKE_FLOOR", "TURRET"}
ObjectType == DamageTypes \cup {"GEM", "LETTER", "SHOP_PORTAL", "MAGNET",
                                "SHIELD", "JUMP_PAD", "SPEED_BOOST"}

----------------------------------------------------------------------------
(* src/store.ts *)

GEMINI_TARGET == <<"G", "E", "M", "I", "N", "I">>
MAX_LEVEL == 3
START_SPEED == 10

calculateSpeed(total) == START_SPEED + (total \div 100)

InitialStore ==
    [status |-> "MENU", score |-> 0, totalScore |-> 0, lives |-> 3,
     maxLives |-> 3, speed |-> 0, collectedLetters |-> {}, level |-> 1,
     laneCount |-> 3, gemsCollected |-> 0, distance |-> 0,
     hasDoubleJump |-> FALSE, hasImmortality |-> FALSE,
     isImmortalityActive |-> FALSE, magnetActive |-> FALSE,
     shieldActive |-> FALSE]

\* startGame and restartGame set the same fields
startGame(s) ==
    [s EXCEPT !.status = "PLAYING", !.score = 0, !.totalScore = 0,
              !.lives = 3, !.maxLives = 3, !.speed = START_SPEED,
              !.collectedLetters = {}, !.level = 1, !.laneCount = 3,
              !.gemsCollected = 0, !.distance = 0,
              !.hasDoubleJump = FALSE, !.hasImmortality = FALSE,
              !.isImmortalityActive = FALSE, !.magnetActive = FALSE,
              !.shieldActive = FALSE]

restartGame(s) == startGame(s)

\* a damage that ignores the shield timer
takeDamage_IgnoreShield(s) ==
    IF s.isImmortalityActive THEN s
    ELSE IF s.lives > 1 THEN [s EXCEPT !.lives = s.lives - 1]
    ELSE [s EXCEPT !.lives = 0, !.status = "GAME_OVER", !.speed = 0]

takeDamage(s) ==
    IF s.isImmortalityActive \/ s.shieldActive THEN s
    ELSE IF s.lives > 1 THEN [s EXCEPT !.lives = s.lives - 1]
    ELSE [s EXCEPT !.lives = 0, !.status = "GAME_OVER", !.speed = 0]

collectGem(s, value) ==
    [s EXCEPT !.score = s.score + value,
              !.totalScore = s.totalScore + value,
              !.gemsCollected = s.gemsCollected + 1,
              !.speed = calculateSpeed(s.totalScore + value)]

setDistance(s, dist) == [s EXCEPT !.distance = dist]

\* a level-up that keeps the collected letters
advanceLevel_KeepLetters(s) ==
    [s EXCEPT !.level = s.level + 1,
              !.laneCount = Min(s.laneCount + 2, 9),
              !.status = "PLAYING"]

advanceLevel(s) ==
    [s EXCEPT !.level = s.level + 1,
              !.laneCount = Min(s.laneCount + 2, 9),
              !.status = "PLAYING",
              !.collectedLetters = {}]

collectLetter(s, index) ==
    IF index \in s.collectedLetters THEN s
    ELSE LET newLetters == s.collectedLetters \cup {index}
             s1 == [s EXCEPT !.collectedLetters = newLetters,
                             !.score = s.score + 100,
                             !.totalScore = s.totalScore + 100,
                             !.speed = calculateSpeed(s.totalScore + 100)]
         IN  IF Cardinality(newLetters) = Len(GEMINI_TARGET)
             THEN IF s.level < MAX_LEVEL
                  THEN advanceLevel(s1)
                  ELSE [s1 EXCEPT !.status = "VICTORY",
                                  !.score = s1.score + 5000,
                                  !.totalScore = s1.totalScore + 5000,
                                  !.speed = calculateSpeed(s1.totalScore + 5000)]
             ELSE s1

openShop(s) == [s EXCEPT !.status = "SHOP"]
closeShop(s) == [s EXCEPT !.status = "PLAYING"]

ItemTypes == {"DOUBLE_JUMP", "MAX_LIFE", "HEAL", "IMMORTAL"}

\* a purchase that also lowers the total score, and with it the speed
buyItem_SpendTotal(s, type, cost) ==
    IF s.score >= cost
    THEN LET s1 == [s EXCEPT !.score = s.score - cost,
                             !.totalScore = s.totalScore - cost,
                             !.speed = calculateSpeed(s.totalScore - cost)]
         IN  [ret |-> TRUE,
              store |-> CASE type = "DOUBLE_JUMP" -> [s1 EXCEPT !.hasDoubleJump = TRUE]
                          [] type = "MAX_LIFE" -> [s1 EXCEPT !.maxLives = s.maxLives + 1,
                                                             !.lives = s.lives + 1]
                          [] type = "HEAL" -> [s1 EXCEPT !.lives = Min(s.lives + 1, s.maxLives)]
                          [] type = "IMMORTAL" -> [s1 EXCEPT !.hasImmortality = TRUE]]
    ELSE [ret |-> FALSE, store |-> s]

\* a heal that is not capped by maxLives
buyItem_HealUncapped(s, type, cost) ==
    IF s.score >= cost
    THEN LET s1 == [s EXCEPT !.score = s.score - cost]
         IN  [ret |-> TRUE,
              store |-> CASE type = "DOUBLE_JUMP" -> [s1 EXCEPT !.hasDoubleJump = TRUE]
                          [] type = "MAX_LIFE" -> [s1 EXCEPT !.maxLives = s.maxLives + 1,
                                                             !.lives = s.lives + 1]
                          [] type = "HEAL" -> [s1 EXCEPT !.lives = s.lives + 1]
                          [] type = "IMMORTAL" -> [s1 EXCEPT !.hasImmortality = TRUE]]
    ELSE [ret |-> FALSE, store |-> s]

\* lines 234-259: the value returned and the store left behind; maxLives and
\* lives are the values read before the score was lowered
buyItem(s, type, cost) ==
    IF s.score >= cost
    THEN LET s1 == [s EXCEPT !.score = s.score - cost]
         IN  [ret |-> TRUE,
              store |-> CASE type = "DOUBLE_JUMP" -> [s1 EXCEPT !.hasDoubleJump = TRUE]
                          [] type = "MAX_LIFE" -> [s1 EXCEPT !.maxLives = s.maxLives + 1,
                                                             !.lives = s.lives + 1]
                          [] type = "HEAL" -> [s1 EXCEPT !.lives = Min(s.lives + 1, s.maxLives)]
                          [] type = "IMMORTAL" -> [s1 EXCEPT !.hasImmortality = TRUE]]
    ELSE [ret |-> FALSE, store |-> s]

setStatus(s, status) == [s EXCEPT !.status = status]

\* Date.now() + POWERUP_DURATION lies in the future: the timer is running
activateMagnet(s) == [s EXCEPT !.magnetActive = TRUE]
activateShield(s) == [s EXCEPT !.shieldActive = TRUE]

\* the host's listener of the 'player-hit' window event
onPlayerHit(s) == takeDamage(s)

----------------------------------------------------------------------------
(* src/components/World/LevelManager.tsx: constants and pure helpers *)

OBSTACLE_HEIGHT == (16 * Scale) \div 10
BASE_LETTER_INTERVAL == 200 * Scale
MISSILE_SPEED == 30

\* an interval that ignores the level
getLetterInterval_Flat(lvl) == BASE_LETTER_INTERVAL

\* 200 * (1 + (level - 1) * 0.4) world units
getLetterInterval(lvl) == BASE_LETTER_INTERVAL + (lvl - 1) * 80 * Scale

\* probabilities in whole percents, minGap in grid cells
getDifficultyConfig(lvl) ==
    [obstacleChance       |-> Min(20 + lvl * 5, 50),
     multiObstacleChance  |-> Min(50 + lvl * 5, 85),
     tripleObstacleChance |-> Min(80 + lvl * 2, 95),
     droneChance          |-> IF lvl >= 2 THEN Min(10 + (lvl - 2) * 3, 25) ELSE 0,
     alienChance          |-> IF lvl >= 2 THEN Min(15 + (lvl - 2) * 4, 35) ELSE 0,
     gapChance            |-> IF lvl >= 4 THEN Min(5 + (lvl - 4) * 2, 15) ELSE 0,
     gemBaseValue         |-> 50 + (lvl - 1) * 10,
     gemBonusValue        |-> 100 + (lvl - 1) * 25,
     minGap               |-> (Max(20, 28 - lvl) * Scale) \div 2,
     powerupChance        |-> Min(5 + lvl, 12)]

\* the lanes getRandomLane can return, and the lanes of availableLanes
Lanes(lc) == (-(lc \div 2)) .. (lc \div 2)

getRandomLane(lc, r) == ((r * ((lc \div 2) * 2 + 1)) \div 100) - (lc \div 2)

\* speed * safeDelta in grid cells: 1.125 * speed * (ms / 1000) * Scale
WorldStep(spd, safeDelta) == (9 * spd * safeDelta * Scale) \div 8000

\* MISSILE_SPEED * safeDelta in grid cells
MissileStep(safeDelta) == (MISSILE_SPEED * safeDelta * Scale) \div 1000

\* speed * 0.3 in grid cells
SpeedGap(spd) == (27 * spd * Scale) \div 80

----------------------------------------------------------------------------
(* entities (GameObject of types.ts).  points = 0 and targetIndex = -1      *)
(* stand for "undefined"; moveSpeed is in half world units per second.      *)
(* by, outcomes, shots and idle are history fields: the shooter of a        *)
(* missile, the interaction outcomes and missiles an entity has produced,   *)
(* and the ticks it has been processed in since it was deactivated.         *)

Entity(id, type, x, y, z) ==
    [id |-> id, type |-> type, x |-> x, y |-> y, z |-> z, active |-> TRUE,
     points |-> 0, targetIndex |-> -1, hasFired |-> FALSE,
     moveDirection |-> 0, moveSpeed |-> 0, gateWidth |-> 0,
     by |-> 0, outcomes |-> 0, shots |-> 0, idle |-> 0]

\* the height each spawn site of the planner gives a type
SpawnY(type) ==
    CASE type = "OBSTACLE"    -> OBSTACLE_HEIGHT \div 2
      [] type = "LETTER"      -> Scale
      [] type = "GEM"         -> (12 * Scale) \div 10
      [] type = "MAGNET"      -> (12 * Scale) \div 10
      [] type = "SHIELD"      -> (12 * Scale) \div 10
      [] type = "LASER_GATE"  -> (8 * Scale) \div 10
      [] type = "BARRIER"     -> (125 * Scale) \div 100
      [] type = "SPIKE_FLOOR" -> 0
      [] type = "TURRET"      -> (2 * Scale) \div 10
      [] type = "DRONE"       -> (15 * Scale) \div 10
      [] type = "ALIEN"       -> (15 * Scale) \div 10
      [] type = "JUMP_PAD"    -> Scale \div 10
      [] type = "SPEED_BOOST" -> (5 * Scale) \div 10
      [] type = "SHOP_PORTAL" -> 0
      [] type = "MISSILE"     -> (8 * Scale) \div 10

\* a bonus item sits on top of an obstacle
TopY == OBSTACLE_HEIGHT + Scale

----------------------------------------------------------------------------
(* The tick (useFrame callback), step 1: move and update one entity.        *)
(* env holds what the callback closed over and computed before the loop:    *)
(* speed, level, laneCount, collected, magnet, safeDelta, dist, px, py, pz. *)

\* lines 296-305: the uniform advance
MoveAmount(obj, env) ==
    env.dist + (IF obj.type = "MISSILE" THEN MissileStep(env.safeDelta) ELSE 0)

\* a magnet without a range
WithinMagnetRange_Always(dx, dz) == TRUE

\* Math.sqrt(dx * dx + dz * dz) < 40
WithinMagnetRange(dx, dz) ==
    /\ Abs(dx) < 40 * Scale
    /\ Abs(dz) < 40 * Scale
    /\ dx * dx + dz * dz < (40 * Scale) * (40 * Scale)

\* lines 307-322: pullStrength = safeDelta * 10 = ms / 100
MagnetPull(obj, env) ==
    IF env.magnet /\ obj.type = "GEM" /\ obj.active
    THEN LET dx == env.px - obj.x
             dz == env.pz - obj.z
         IN  IF WithinMagnetRange(dx, dz)
             THEN [obj EXCEPT !.x = @ + RoundAway(dx, env.safeDelta, 100),
                              !.z = @ + RoundAway(dz, env.safeDelta, 100),
                              !.y = @ + RoundAway(env.py - obj.y, env.safeDelta, 100)]
             ELSE obj
    ELSE obj

\* a Drone that tracks only once it is within 5 units of the player
DroneTrack_Near(obj, env) ==
    IF obj.type = "DRONE" /\ obj.active /\ obj.z > env.pz - 5 * Scale
    THEN [obj EXCEPT !.x = @ + RoundAway(env.px - obj.x, 3 * env.safeDelta, 2000)]
    ELSE obj

\* a Drone that tracks the player wherever it is
DroneTrack_AnyZ(obj, env) ==
    IF obj.type = "DRONE" /\ obj.active
    THEN [obj EXCEPT !.x = @ + RoundAway(env.px - obj.x, 3 * env.safeDelta, 2000)]
    ELSE obj

\* lines 324-333: lerpSpeed = safeDelta * 1.5 = 3 ms / 2000
DroneTrack(obj, env) ==
    IF obj.type = "DRONE" /\ obj.active /\ obj.z < env.pz - 5 * Scale
    THEN [obj EXCEPT !.x = @ + RoundAway(env.px - obj.x, 3 * env.safeDelta, 2000)]
    ELSE obj

\* a Barrier that stops at the boundary and keeps its direction
BarrierMove_NoFlip(obj, env) ==
    IF obj.type = "BARRIER" /\ obj.active
    THEN LET maxX == (env.laneCount \div 2) * LANE_WIDTH
             dir == IF obj.moveDirection = 0 THEN 1 ELSE obj.moveDirection
             spd == IF obj.moveSpeed = 0 THEN 6 ELSE obj.moveSpeed
             x1 == obj.x + dir * ((spd * env.safeDelta * Scale) \div 2000)
         IN  [obj EXCEPT !.x = Max(-maxX, Min(maxX, x1))]
    ELSE obj

\* lines 335-348
BarrierMove(obj, env) ==
    IF obj.type = "BARRIER" /\ obj.active
    THEN LET maxX == (env.laneCount \div 2) * LANE_WIDTH
             dir == IF obj.moveDirection = 0 THEN 1 ELSE obj.moveDirection
             spd == IF obj.moveSpeed = 0 THEN 6 ELSE obj.moveSpeed
             x1 == obj.x + dir * ((spd * env.safeDelta * Scale) \div 2000)
         IN  IF x1 > maxX THEN [obj EXCEPT !.x = maxX, !.moveDirection = -1]
             ELSE IF x1 < -maxX THEN [obj EXCEPT !.x = -maxX, !.moveDirection = 1]
             ELSE [obj EXCEPT !.x = x1]
    ELSE obj

\* lines 350-389: the forward coordinate a shooter must have passed
\* one firing threshold for both shooters
FireThreshold_Same(type) == -80 * Scale

FireThreshold(type) == IF type = "TURRET" THEN -80 * Scale ELSE -90 * Scale

\* a shooter that forgets it has fired
Fires_Repeat(obj) ==
    /\ obj.type \in {"TURRET", "ALIEN"}
    /\ obj.active
    /\ obj.z > FireThreshold(obj.type)

Fires(obj) ==
    /\ obj.type \in {"TURRET", "ALIEN"}
    /\ obj.active
    /\ ~obj.hasFired
    /\ obj.z > FireThreshold(obj.type)

\* a missile that has already flown a tick when it is pushed
FiredMissile_Moved(obj, id) ==
    [Entity(id, "MISSILE", obj.x,
            IF obj.type = "TURRET" THEN (8 * Scale) \div 10 ELSE Scale,
            obj.z + 2 * Scale + MissileStep(50)) EXCEPT !.by = obj.id]

\* the missile a shooter pushes to newSpawns
FiredMissile(obj, id) ==
    [Entity(id, "MISSILE", obj.x,
            IF obj.type = "TURRET" THEN (8 * Scale) \div 10 ELSE Scale,
            obj.z + 2 * Scale) EXCEPT !.by = obj.id]

\* a zone test on the current coordinate alone
InZZone_CurrentOnly(prevZ, z, pz) == Abs(z - pz) < 2 * Scale

\* lines 394-395
InZZone(prevZ, z, pz) == prevZ < pz + 2 * Scale /\ z > pz - 2 * Scale

\* a portal that must also be met in the player's lane
PortalTriggers_InLane(obj, env) ==
    Abs(obj.z - env.pz) < 2 * Scale /\ Abs(obj.x - env.px) < (9 * Scale) \div 10

\* lines 399-400
PortalTriggers(obj, env) == Abs(obj.z - env.pz) < 2 * Scale

\* one lateral threshold for every type
HitDist_Narrow(type) == (9 * Scale) \div 10

\* line 410
HitDist(type) ==
    IF type \in {"MAGNET", "SHIELD"} THEN (15 * Scale) \div 10 ELSE (9 * Scale) \div 10

\* lines 414-421
IsDamageSource(type) ==
    type \in {"OBSTACLE", "ALIEN", "MISSILE", "DRONE", "LASER_GATE", "BARRIER",
              "SPIKE_FLOOR", "TURRET"}

\* lines 427-451: <<objBottom, objTop>>
ObjBand(obj) ==
    CASE obj.type = "OBSTACLE"    -> <<0, OBSTACLE_HEIGHT>>
      [] obj.type = "MISSILE"     -> <<(5 * Scale) \div 10, (15 * Scale) \div 10>>
      [] obj.type = "DRONE"       -> <<obj.y - (5 * Scale) \div 10, obj.y + (5 * Scale) \div 10>>
      [] obj.type = "LASER_GATE"  -> <<(5 * Scale) \div 10, (12 * Scale) \div 10>>
      [] obj.type = "BARRIER"     -> <<0, (25 * Scale) \div 10>>
      [] obj.type = "SPIKE_FLOOR" -> <<0, (8 * Scale) \div 10>>
      [] obj.type = "TURRET"      -> <<0, (8 * Scale) \div 10>>
      [] OTHER                    -> <<obj.y - (5 * Scale) \div 10, obj.y + (5 * Scale) \div 10>>

\* a hit test that forgets the vertical bands
IsHit_AnyHeight(obj, env) == TRUE

\* lines 424-425, 453
IsHit(obj, env) ==
    LET playerBottom == env.py
        playerTop == env.py + (18 * Scale) \div 10
    IN  playerBottom < ObjBand(obj)[2] /\ playerTop > ObjBand(obj)[1]

\* lines 467-468
IsCollected(obj, env) == Abs(obj.y - env.py) < (25 * Scale) \div 10

Ev(kind, id, arg) == [kind |-> kind, id |-> id, arg |-> arg]

\* lines 469-481: the store callback of a pickup
PickupStore(obj, s) ==
    CASE obj.type = "GEM" -> collectGem(s, IF obj.points = 0 THEN 50 ELSE obj.points)
      [] obj.type = "LETTER" /\ obj.targetIndex # -1 -> collectLetter(s, obj.targetIndex)
      [] obj.type = "MAGNET" -> activateMagnet(s)
      [] obj.type = "SHIELD" -> activateShield(s)
      [] OTHER -> s

PickupEvents(obj) ==
    CASE obj.type = "GEM" ->
            <<Ev("collectGem", obj.id, IF obj.points = 0 THEN 50 ELSE obj.points)>>
      [] obj.type = "LETTER" /\ obj.targetIndex # -1 ->
            <<Ev("collectLetter", obj.id, obj.targetIndex)>>
      [] obj.type = "MAGNET" -> <<Ev("activateMagnet", obj.id, 0)>>
      [] obj.type = "SHIELD" -> <<Ev("activateShield", obj.id, 0)>>
      [] OTHER -> <<>>

\* a collision test that forgets the active flag
Collidable_Always(obj) == TRUE

\* line 392: only an active entity is tested
Collidable(obj) == obj.active

\* lines 391-496: the collision of one moved entity; prevZ is its forward
\* coordinate before the uniform advance.  The result is the entity, the
\* store, the signals emitted, the keep flag and whether it was a candidate.
Collide(obj, prevZ, env, s) ==
    LET none == [obj |-> obj, store |-> s, events |-> <<>>, keep |-> TRUE, cand |-> FALSE]
    IN  IF ~Collidable(obj) THEN none
        ELSE IF obj.type = "SHOP_PORTAL"
        THEN IF PortalTriggers(obj, env)
             THEN [obj |-> [obj EXCEPT !.active = FALSE, !.outcomes = @ + 1],
                   store |-> openShop(s),
                   events |-> <<Ev("openShop", obj.id, 0)>>,
                   keep |-> FALSE, cand |-> FALSE]
             ELSE none
        ELSE IF ~InZZone(prevZ, obj.z, env.pz) THEN none
        ELSE IF ~(Abs(obj.x - env.px) < HitDist(obj.type)) THEN [none EXCEPT !.cand = TRUE]
        ELSE IF IsDamageSource(obj.type)
        THEN IF IsHit(obj, env)
             THEN [obj |-> [obj EXCEPT !.active = FALSE, !.outcomes = @ + 1],
                   store |-> onPlayerHit(s),
                   events |-> <<Ev("player-hit", obj.id, 0),
                                Ev("particle-burst", obj.id, "hit")>>,
                   keep |-> TRUE, cand |-> TRUE]
             ELSE [none EXCEPT !.cand = TRUE]
        ELSE IF IsCollected(obj, env)
             THEN [obj |-> [obj EXCEPT !.active = FALSE, !.outcomes = @ + 1],
                   store |-> PickupStore(obj, s),
                   events |-> PickupEvents(obj) \o
                              <<Ev("particle-burst", obj.id, "collect")>>,
                   keep |-> TRUE, cand |-> TRUE]
             ELSE [none EXCEPT !.cand = TRUE]

\* a removal test at a larger distance
PastRemoval_Late(obj) == obj.z > REMOVE_DISTANCE + Scale

\* lines 498-501
PastRemoval(obj) == obj.z > REMOVE_DISTANCE

\* a callback that reads the store afresh wherever it uses one of its values
ClosureEnv_Live(env, s) ==
    [env EXCEPT !.speed = s.speed, !.level = s.level, !.laneCount = s.laneCount,
                !.collected = s.collectedLetters, !.magnet = s.magnetActive,
                !.dist = WorldStep(s.speed, env.safeDelta)]

\* lines 200-214, 279, 288: level, laneCount, speed and collectedLetters are
\* constants of the render's closure, dist and isMagnetActive are computed
\* before the loop: a step of the callback uses them whatever the store s
\* holds by then
ClosureEnv(env, s) == env

\* lines 295-506: one iteration of the loop over currentObjects.  acc is
\* keptObjects, newSpawns, the store, the signals, the candidates, every
\* processed entity (the in-place mutations) and the next identifier.
ProcessObj(obj0, acc, env0) ==
    LET env == ClosureEnv(env0, acc.store)
        wasInactive == ~obj0.active
        prevZ == obj0.z
        o1 == [obj0 EXCEPT !.z = @ + MoveAmount(obj0, env)]
        o2 == BarrierMove(DroneTrack(MagnetPull(o1, env), env), env)
        fire == Fires(o2)
        o3 == IF fire THEN [o2 EXCEPT !.hasFired = TRUE, !.shots = @ + 1] ELSE o2
        c == Collide(o3, prevZ, env, acc.store)
        o4 == IF wasInactive THEN [c.obj EXCEPT !.idle = @ + 1] ELSE c.obj
        keep == c.keep /\ ~PastRemoval(o4)
    IN  [kept |-> IF keep THEN Append(acc.kept, o4) ELSE acc.kept,
         newSpawns |-> IF fire THEN Append(acc.newSpawns, FiredMissile(o3, acc.nextId))
                       ELSE acc.newSpawns,
         store |-> c.store,
         events |-> acc.events
                    \o (IF fire THEN <<Ev("particle-burst", o3.id, "fire")>> ELSE <<>>)
                    \o c.events,
         cands |-> IF c.cand THEN acc.cands \cup {o4.id} ELSE acc.cands,
         all |-> Append(acc.all, o4),
         changed |-> acc.changed \/ fire \/ c.events # <<>> \/ PastRemoval(o4),
         removed |-> IF PastRemoval(o4)
                     THEN acc.removed \cup {[id |-> o4.id, active |-> o4.active]}
                     ELSE acc.removed,
         nextId |-> IF fire THEN acc.nextId + 1 ELSE acc.nextId]

RECURSIVE RunLoop(_, _, _, _)
RunLoop(objs, i, acc, env) ==
    IF i > Len(objs) THEN acc
    ELSE RunLoop(objs, i + 1, ProcessObj(objs[i], acc, env), env)

----------------------------------------------------------------------------
(* The tick, step 2: the spawn planner (lines 512-760).  A plan is the      *)
(* sequence of entities one tick pushes to keptObjects, as templates: the   *)
(* lane stands for the x coordinate lane * LANE_WIDTH.  SpawnPlans is the   *)
(* set of plans the rolls of Math.random() can produce.  The source has no  *)
(* limit on the registry; cap is the room the explored registry has left,   *)
(* and only the plans of at most cap entities are built.                    *)

Tpl(type, lane, y) ==
    [type |-> type, lane |-> lane, y |-> y, points |-> 0, targetIndex |-> -1,
     moveDirection |-> 0, moveSpeed |-> 0, gateWidth |-> 0]

\* the lanes getRandomLane returns over all rolls
RandomLanes(lc) == {getRandomLane(lc, r) : r \in Rolls}

\* a choice of index that ignores the collected letters
AvailableIndices_All(collected) == 0 .. (Len(GEMINI_TARGET) - 1)

\* line 532
AvailableIndices(collected) ==
    {i \in 0 .. (Len(GEMINI_TARGET) - 1) : i \notin collected}

\* a fallback that places the bonus gem of the obstacle toppers
LetterDuePlans_BonusGem(lvl, lc, collected) ==
    IF AvailableIndices(collected) # {}
    THEN {<<[Tpl("LETTER", lane, SpawnY("LETTER")) EXCEPT !.targetIndex = i]>> :
             lane \in RandomLanes(lc), i \in AvailableIndices(collected)}
    ELSE {<<[Tpl("GEM", lane, SpawnY("GEM")) EXCEPT
                !.points = getDifficultyConfig(lvl).gemBonusValue]>> :
             lane \in RandomLanes(lc)}

\* lines 529-561
LetterDuePlans(lvl, lc, collected) ==
    IF AvailableIndices(collected) # {}
    THEN {<<[Tpl("LETTER", lane, SpawnY("LETTER")) EXCEPT !.targetIndex = i]>> :
             lane \in RandomLanes(lc), i \in AvailableIndices(collected)}
    ELSE {<<[Tpl("GEM", lane, SpawnY("GEM")) EXCEPT
                !.points = getDifficultyConfig(lvl).gemBaseValue]>> :
             lane \in RandomLanes(lc)}

\* lanes drawn independently, without the shuffle
ShuffledLanes_Any(lc, k) == [1 .. k -> Lanes(lc)]

\* lines 599-602, 641-644, 664-667: what the first k entries of availableLanes
\* can be after the shuffle: any k distinct lanes in any order
ShuffledLanes(lc, k) ==
    {f \in [1 .. k -> Lanes(lc)] : \A i, j \in 1 .. k : i # j => f[i] # f[j]}

\* a hazard selection without the level floors
HazardOf_Unlocked(lvl, obstacleRoll) ==
    IF obstacleRoll < 10 THEN "LASER_GATE"
    ELSE IF obstacleRoll < 18 THEN "BARRIER"
    ELSE IF obstacleRoll < 30 THEN "SPIKE_FLOOR"
    ELSE IF obstacleRoll < 38 THEN "TURRET"
    ELSE "NEXT"

\* lines 570-617: the hazard the obstacle roll selects; "NEXT" falls through
\* to the drone, alien and standard obstacle rolls
HazardOf(lvl, obstacleRoll) ==
    IF lvl >= 4 /\ obstacleRoll < 10 THEN "LASER_GATE"
    ELSE IF lvl >= 5 /\ obstacleRoll < 18 THEN "BARRIER"
    ELSE IF lvl >= 3 /\ obstacleRoll < 30 THEN "SPIKE_FLOOR"
    ELSE IF lvl >= 6 /\ obstacleRoll < 38 THEN "TURRET"
    ELSE "NEXT"

\* lines 629, 640, 662
EnemyOf(lvl, droneRoll, alienRoll) ==
    IF droneRoll < getDifficultyConfig(lvl).droneChance THEN "DRONE"
    ELSE IF alienRoll < getDifficultyConfig(lvl).alienChance THEN "ALIEN"
    ELSE "OBSTACLE"

\* line 604
SpikeCount(r, n) == Min(1 + ((r * 3) \div 100), n)

\* lines 646-649
AlienCount(pAlien, n) ==
    IF pAlien >= 90 /\ n >= 3 THEN 3
    ELSE IF pAlien >= 70 THEN Min(2, n)
    ELSE 1

\* lines 669-673
ObstacleCount(lvl, p, n) ==
    IF p >= getDifficultyConfig(lvl).tripleObstacleChance THEN Min(3, n)
    ELSE IF p >= getDifficultyConfig(lvl).multiObstacleChance THEN Min(2, n)
    ELSE 1

\* lines 688-708: what sits on top of a standard obstacle
TopperOf(lvl, topRoll, shieldRoll) ==
    IF topRoll < getDifficultyConfig(lvl).powerupChance
    THEN (IF shieldRoll >= 50 THEN "SHIELD" ELSE "MAGNET")
    ELSE IF topRoll < 30 THEN "GEM"
    ELSE "NONE"

\* lines 675-709: one standard obstacle and its bonus item
ObstacleGroup(lvl, lane, topper) ==
    <<Tpl("OBSTACLE", lane, SpawnY("OBSTACLE"))>> \o
    (CASE topper = "NONE" -> <<>>
       [] topper = "GEM" -> <<[Tpl("GEM", lane, TopY) EXCEPT
                                  !.points = getDifficultyConfig(lvl).gemBonusValue]>>
       [] OTHER -> <<Tpl(topper, lane, TopY)>>)

RECURSIVE ObstacleRow(_, _, _, _)
ObstacleRow(lvl, lanes, toppers, i) ==
    IF i > Len(lanes) THEN <<>>
    ELSE ObstacleGroup(lvl, lanes[i], toppers[i]) \o ObstacleRow(lvl, lanes, toppers, i + 1)

\* lines 663-710
StandardObstaclePlans(lvl, lc, cap) ==
    LET n == Cardinality(Lanes(lc))
        tops == {TopperOf(lvl, t, sh) : t \in Rolls, sh \in {0, 50}}
        Fits(k) == {f \in [1 .. k -> tops] :
                       k + Cardinality({i \in 1 .. k : f[i] # "NONE"}) <= cap}
    IN  UNION {{ObstacleRow(lvl, lanes, toppers, 1) :
                   lanes \in ShuffledLanes(lc, k), toppers \in Fits(k)} :
               k \in {c \in {ObstacleCount(lvl, p, n) : p \in Rolls} : c <= cap}}

\* lines 640-661
AlienPlans(lc, cap) ==
    LET n == Cardinality(Lanes(lc))
    IN  UNION {{[i \in 1 .. k |-> Tpl("ALIEN", lanes[i], SpawnY("ALIEN"))] :
                   lanes \in ShuffledLanes(lc, k)} :
               k \in {c \in {AlienCount(p, n) : p \in Rolls} : c <= cap}}

\* lines 598-615
SpikePlans(lc, cap) ==
    LET n == Cardinality(Lanes(lc))
    IN  UNION {{[i \in 1 .. k |-> Tpl("SPIKE_FLOOR", lanes[i], SpawnY("SPIKE_FLOOR"))] :
                   lanes \in ShuffledLanes(lc, k)} :
               k \in {c \in {SpikeCount(r, n) : r \in Rolls} : c <= cap}}

\* lines 566-710: the plans of one hazard kind
HazardPlans(kind, lvl, lc, cap) ==
    CASE kind = "LASER_GATE" ->
            {<<[Tpl("LASER_GATE", 0, SpawnY("LASER_GATE")) EXCEPT
                   !.gateWidth = Min(2 + (lvl \div 3), lc)]>>}
      [] kind = "BARRIER" ->
            {<<[Tpl("BARRIER", lane, SpawnY("BARRIER")) EXCEPT
                   !.moveDirection = dir, !.moveSpeed = 6 + lvl]>> :
                lane \in RandomLanes(lc), dir \in {1, -1}}
      [] kind = "SPIKE_FLOOR" -> SpikePlans(lc, cap)
      [] kind = "TURRET" ->
            {<<Tpl("TURRET", lane, SpawnY("TURRET"))>> : lane \in RandomLanes(lc)}
      [] kind = "DRONE" ->
            {<<Tpl("DRONE", lane, SpawnY("DRONE"))>> : lane \in RandomLanes(lc)}
      [] kind = "ALIEN" -> AlienPlans(lc, cap)
      [] kind = "OBSTACLE" -> StandardObstaclePlans(lvl, lc, cap)

\* the hazard kinds the rolls of one tick can select at a level
HazardKinds(lvl) ==
    LET first == {HazardOf(lvl, r) : r \in Rolls}
    IN  (first \ {"NEXT"}) \cup
        (IF "NEXT" \in first
         THEN {EnemyOf(lvl, rd, ra) : rd \in Rolls, ra \in Rolls}
         ELSE {})

\* lines 716-756: the ground item the rolls select
GroundOf(lvl, jumpRoll, boostRoll, powerRoll, shieldRoll) ==
    IF lvl >= 4 /\ jumpRoll < 3 THEN "JUMP_PAD"
    ELSE IF lvl >= 7 /\ boostRoll < 3 THEN "SPEED_BOOST"
    ELSE IF powerRoll < getDifficultyConfig(lvl).powerupChance
    THEN (IF shieldRoll >= 50 THEN "SHIELD" ELSE "MAGNET")
    ELSE "GEM"

\* every roll matters only through the side of its threshold it falls on
GroundKinds(lvl) ==
    {GroundOf(lvl, rj, rs, rp, rsh) :
        rj \in {0, 99}, rs \in {0, 99}, rp \in {0, 99}, rsh \in {0, 99}}

\* lines 712-757
GroundPlans(lvl, lc) ==
    {<<IF kind = "GEM"
       THEN [Tpl("GEM", lane, SpawnY("GEM")) EXCEPT
                !.points = getDifficultyConfig(lvl).gemBaseValue]
       ELSE Tpl(kind, lane, SpawnY(kind))>> :
        lane \in RandomLanes(lc), kind \in GroundKinds(lvl)}

\* line 563: Math.random() > 0.1 fails: nothing is spawned this tick
SkipRoll(r) == ~(r >= 10)

\* an obstacle roll read the other way round
IsObstacleRoll_Reversed(lvl, r) == r >= getDifficultyConfig(lvl).obstacleChance

\* line 564
IsObstacleRoll(lvl, r) == r < getDifficultyConfig(lvl).obstacleChance

\* the rolls of lines 563-564 a tick draws: none when the gate is closed or a
\* letter is due, no obstacle roll after a skip.  A roll matters only
\* through the side of its threshold it falls on; -1 stands for "not drawn".
SkipRolls == {9, 10}

ChanceRolls(lvl) ==
    {0, getDifficultyConfig(lvl).obstacleChance - 1,
     getDifficultyConfig(lvl).obstacleChance, 99}

DrawnRolls(gate, isLetterDue, lvl) ==
    IF gate /\ ~isLetterDue
    THEN {[skip |-> a, chance |-> IF SkipRoll(a) THEN -1 ELSE b] :
             a \in SkipRolls, b \in ChanceRolls(lvl)}
    ELSE {[skip |-> -1, chance |-> -1]}

\* lines 527-759: every plan the planner can make once the gate is open,
\* given the two rolls
SpawnPlans(lvl, lc, collected, isLetterDue, rolls, cap) ==
    IF isLetterDue
    THEN (IF cap < 1 THEN {} ELSE LetterDuePlans(lvl, lc, collected))
    ELSE IF SkipRoll(rolls.skip) THEN {<<>>}
    ELSE IF cap < 1 THEN {}
    ELSE IF IsObstacleRoll(lvl, rolls.chance)
    THEN UNION {HazardPlans(kind, lvl, lc, cap) : kind \in HazardKinds(lvl)}
    ELSE GroundPlans(lvl, lc)

\* lines 513-520
FurthestZ(kept) ==
    LET zs == {kept[i].z : i \in {j \in 1 .. Len(kept) :
                                    kept[j].type \notin {"MISSILE", "DRONE"}}}
    IN  IF zs # {} THEN CHOOSE z \in zs : \A w \in zs : z <= w
        ELSE -20 * Scale

\* a gate that is still open at the spawn distance itself
GateOpen_AtDistance(furthestZ) == furthestZ >= -SPAWN_DISTANCE

\* line 522
GateOpen(furthestZ) == furthestZ > -SPAWN_DISTANCE

\* a spawn place that is not held at the spawn distance
SpawnZ_NoClamp(furthestZ, lvl, spd) ==
    furthestZ - (getDifficultyConfig(lvl).minGap + SpeedGap(spd))

\* lines 523-525
SpawnZ(furthestZ, lvl, spd) ==
    Min(furthestZ - (getDifficultyConfig(lvl).minGap + SpeedGap(spd)), -SPAWN_DISTANCE)

\* line 527
IsLetterDue(dist, threshold) == dist >= threshold

\* the entities of a plan, in the order pushed
Spawned(plan, spawnZ, id0) ==
    [i \in 1 .. Len(plan) |->
        [Entity(id0 + i - 1, plan[i].type, plan[i].lane * LANE_WIDTH, plan[i].y, spawnZ)
            EXCEPT !.points = plan[i].points,
                   !.targetIndex = plan[i].targetIndex,
                   !.moveDirection = plan[i].moveDirection,
                   !.moveSpeed = plan[i].moveSpeed,
                   !.gateWidth = plan[i].gateWidth]]

----------------------------------------------------------------------------
(* The tick as a whole (lines 273-766) *)

\* an elapsed time that is not clamped
SafeDelta_NoClamp(delta) == delta

\* line 276: Math.min(delta, 0.05)
SafeDelta(delta) == Min(delta, 50)

\* lines 282-286: the position the callback uses, new THREE.Vector3(0, 0, 0)
\* unless playerObjRef holds the player object
UsedPos(resolved) ==
    IF resolved THEN [x |-> playerPos.x, y |-> playerPos.y, z |-> playerPos.z]
    ELSE [x |-> 0, y |-> 0, z |-> 0]

\* lines 264-271: the lookup of the player object, in the frame callback
\* registered first; the scene, owned by the host, holds the object or not
Lookups == IF playerPos.resolved THEN {TRUE} ELSE BOOLEAN

TickEnv(delta, resolved) ==
    [speed |-> props.speed, level |-> props.level, laneCount |-> props.laneCount,
     collected |-> props.collectedLetters, magnet |-> props.magnetActive,
     safeDelta |-> SafeDelta(delta),
     dist |-> WorldStep(props.speed, SafeDelta(delta)),
     px |-> UsedPos(resolved).x, py |-> UsedPos(resolved).y,
     pz |-> UsedPos(resolved).z]

EmptyLog ==
    [n |-> 0, delta |-> 0, dist |-> 0, events |-> <<>>, cands |-> {},
     fired |-> <<>>, spawned |-> <<>>, gate |-> FALSE, due |-> FALSE,
     level |-> 0, laneCount |-> 0, speed |-> 0, collected |-> {},
     furthestZ |-> 0, removed |-> {}, skipRoll |-> -1, chanceRoll |-> -1]

\* a frame callback without the status gate
Gated_Never(status) == FALSE

\* line 274: if (status !== GameStatus.PLAYING) return
Gated(status) == status # "PLAYING"

\* The frame callback.  A render is never pending when a frame starts: the
\* host commits the store changes of one frame before it runs the next.
\* The planner runs after the loop, when the store is already the one the
\* callbacks of the loop left (store').
\* deltas are the elapsed times offered, room the number of entities the
\* planner may place in the explored registry.
Frame(deltas, room) ==
    /\ tickLog.n < MaxTicks
    /\ props = store
    /\ \E delta \in deltas, found \in Lookups :
        IF Gated(props.status)
        THEN /\ tickLog' = [EmptyLog EXCEPT !.n = tickLog.n + 1, !.delta = delta]
             /\ playerPos' = [playerPos EXCEPT !.resolved = found]
             /\ UNCHANGED <<store, props, objects, prevStatus, prevLevel,
                            distanceTraveled, nextLetterDistance,
                            nextId, lastCall>>
        ELSE
        LET env == TickEnv(delta, found)
            d1 == distanceTraveled + env.dist
            acc0 == [kept |-> <<>>, newSpawns |-> <<>>, store |-> store,
                     events |-> <<>>, cands |-> {}, all |-> <<>>,
                     changed |-> FALSE, removed |-> {}, nextId |-> nextId]
            R == RunLoop(objects, 1, acc0, env)
            kept1 == R.kept \o R.newSpawns
            fz == FurthestZ(kept1)
            gate == GateOpen(fz)
            due == IsLetterDue(d1, nextLetterDistance)
            penv == ClosureEnv(env, store')
        IN  /\ store' = R.store
            /\ \E rolls \in DrawnRolls(gate, due, penv.level) :
                \E plan \in (IF gate
                             THEN SpawnPlans(penv.level, penv.laneCount, penv.collected, due,
                                             rolls, Min(MaxObjects - Len(kept1), room))
                             ELSE {<<>>}) :
                  LET new == Spawned(plan, SpawnZ(fz, penv.level, penv.speed), R.nextId)
                      hasChanges == R.changed \/ plan # <<>>
                      letter == gate /\ due /\ AvailableIndices(penv.collected) # {}
                  IN  /\ Len(kept1) + Len(new) <= MaxObjects
                      /\ objects' = IF hasChanges THEN kept1 \o new ELSE R.all
                      /\ distanceTraveled' = d1
                      /\ nextLetterDistance' =
                            IF letter THEN nextLetterDistance + getLetterInterval(penv.level)
                            ELSE nextLetterDistance
                      /\ nextId' = R.nextId + Len(new)
                      /\ tickLog' = [n |-> tickLog.n + 1, delta |-> delta,
                                     dist |-> env.dist, events |-> R.events,
                                     cands |-> R.cands, fired |-> R.newSpawns,
                                     spawned |-> new, gate |-> gate, due |-> due,
                                     level |-> penv.level, laneCount |-> penv.laneCount,
                                     speed |-> penv.speed,
                                     collected |-> penv.collected, furthestZ |-> fz,
                                     removed |-> R.removed,
                                     skipRoll |-> rolls.skip, chanceRoll |-> rolls.chance]
                      /\ playerPos' = [playerPos EXCEPT !.resolved = found]
                      /\ UNCHANGED <<props, prevStatus, prevLevel, lastCall>>

\* a frame of any of the elapsed times explored, the registry as the only
\* limit of what the planner places
Tick == Frame(Deltas, MaxObjects)

----------------------------------------------------------------------------
(* The render of LevelManager after a store change, and its effect          *)
(* (lines 226-262), which runs when status or level changed.                *)

ShopPortal(id) == Entity(id, "SHOP_PORTAL", 0, 0, -100 * Scale)

\* a soft reset that prunes nothing
SoftKeep_All(objs) == objs

\* line 243
SoftKeep(objs) == SelectSeq(objs, LAMBDA o : o.z > -80 * Scale)

\* a hard reset that forgets the restart after a victory
IsHardReset_NoVictory(status, prevSt) ==
    \/ status = "MENU"
    \/ status = "PLAYING" /\ prevSt = "GAME_OVER"

\* lines 227-232: isMenuReset || isRestart || isVictoryReset
IsHardReset(status, prevSt) ==
    \/ status = "MENU"
    \/ status = "PLAYING" /\ prevSt = "GAME_OVER"
    \/ status = "PLAYING" /\ prevSt = "VICTORY"

\* line 229
IsLevelUp(status, level, prevLvl) == level # prevLvl /\ status = "PLAYING"

\* line 253
SoftThreshold(dist, level) == dist - SPAWN_DISTANCE + getLetterInterval(level)

\* a report that rounds up
FinalDistance_Ceil(dist) == (dist + Scale - 1) \div Scale

\* line 257: Math.floor(distanceTraveled.current), in world units
FinalDistance(dist) == dist \div Scale

Render ==
    /\ props # store
    /\ props' = store
    /\ IF store.status = props.status /\ store.level = props.level
       THEN UNCHANGED <<store, objects, prevStatus, prevLevel, distanceTraveled,
                        nextLetterDistance, nextId>>
       ELSE
       LET hard == IsHardReset(store.status, prevStatus)
           soft == ~hard /\ IsLevelUp(store.status, store.level, prevLevel)
                         /\ store.level > 1
           final == ~hard /\ ~soft /\ store.status \in {"GAME_OVER", "VICTORY"}
       IN  /\ objects' = IF hard THEN <<>>
                         ELSE IF soft THEN Append(SoftKeep(objects), ShopPortal(nextId))
                         ELSE objects
           /\ nextId' = IF soft THEN nextId + 1 ELSE nextId
           /\ distanceTraveled' = IF hard THEN 0 ELSE distanceTraveled
           /\ nextLetterDistance' =
                 IF hard THEN getLetterInterval(1)
                 ELSE IF soft
                 THEN SoftThreshold(distanceTraveled, store.level)
                 ELSE nextLetterDistance
           /\ store' = IF final THEN setDistance(store, FinalDistance(distanceTraveled))
                       ELSE store
           /\ prevStatus' = store.status
           /\ prevLevel' = store.level
    /\ UNCHANGED <<playerPos, tickLog, lastCall>>

----------------------------------------------------------------------------
(* The host's clock.  magnetActive stands for Date.now() < magnetEndTime,    *)
(* which the frame callback evaluates afresh in every frame (line 288): the  *)
(* clock passing magnetEndTime ends the magnet without a store change or a   *)
(* render.                                                                   *)

\* a magnet that never runs out
MagnetExpires_Never == FALSE /\ UNCHANGED vars

MagnetExpires ==
    /\ store.magnetActive
    /\ props = store
    /\ store' = [store EXCEPT !.magnetActive = FALSE]
    /\ props' = [props EXCEPT !.magnetActive = FALSE]
    /\ UNCHANGED <<objects, prevStatus, prevLevel, distanceTraveled,
                   nextLetterDistance, playerPos, nextId, tickLog, lastCall>>

----------------------------------------------------------------------------
(* The host: the screens that call the store *)

\* a call of the store by a screen of the host; the screen is the one the
\* last render showed, so no render is pending
HostCall(op, arg, s1) ==
    /\ props = store
    /\ lastCall.n < MaxCalls
    /\ store' = s1
    /\ lastCall' = [op |-> op, arg |-> arg, n |-> lastCall.n + 1]
    /\ UNCHANGED <<props, objects, prevStatus, prevLevel, distanceTraveled,
                   nextLetterDistance, playerPos, nextId, tickLog>>

StartGame ==
    /\ store.status = "MENU"
    /\ HostCall("startGame", 0, startGame(store))

RestartGame ==
    /\ store.status \in {"GAME_OVER", "VICTORY"}
    /\ HostCall("restartGame", 0, restartGame(store))

CloseShop ==
    /\ store.status = "SHOP"
    /\ HostCall("closeShop", 0, closeShop(store))

\* back to the menu from a final screen
GoToMenu ==
    /\ store.status \in {"GAME_OVER", "VICTORY"}
    /\ HostCall("setStatus", 0, setStatus(store, "MENU"))

----------------------------------------------------------------------------
(* Initial states.  Init is the state after construction (the menu).  The   *)
(* scenario families start a run in mid-game: a level, a world speed with   *)
(* the score that yields it, a registry as ticks leave it behind, and the   *)
(* player somewhere in a lane change or a jump.  The level is the store's   *)
(* level field as advanceLevel leaves it; the lane count follows from it.   *)

LaneCountAt(lvl) == Min(3 + 2 * (lvl - 1), 9)

PlayingStore(lvl, spd, collected, magnet) ==
    [InitialStore EXCEPT !.status = "PLAYING", !.speed = spd,
                         !.score = (spd - START_SPEED) * 100,
                         !.totalScore = (spd - START_SPEED) * 100,
                         !.level = lvl, !.laneCount = LaneCountAt(lvl),
                         !.collectedLetters = collected, !.magnetActive = magnet]

\* an entity as the planner made it and earlier ticks moved it to z
Placed(id, type, x, z, lvl) ==
    [Entity(id, type, x, SpawnY(type), z) EXCEPT
        !.points = IF type = "GEM" THEN getDifficultyConfig(lvl).gemBaseValue ELSE 0,
        !.targetIndex = IF type = "LETTER" THEN 0 ELSE -1,
        !.hasFired = type \in {"TURRET", "ALIEN"} /\ z > FireThreshold(type),
        !.moveDirection = IF type = "BARRIER" THEN 1 ELSE 0,
        !.moveSpeed = IF type = "BARRIER" THEN 6 + lvl ELSE 0,
        !.gateWidth = IF type = "LASER_GATE" THEN Min(2 + (lvl \div 3), LaneCountAt(lvl))
                      ELSE 0]

\* an entity that was hit or picked up before the explored ticks and is
\* still carried (idle counts the explored ticks only)
Spent(e) == [e EXCEPT !.active = FALSE, !.outcomes = 1]

\* just ahead of the collision zone, of a firing threshold, of the removal
\* distance
NearZ == -2 * Scale - 100
RemovalZ == REMOVE_DISTANCE - 100
ThresholdZ(type) == FireThreshold(type) - 100

\* just ahead of the place where a Drone stops tracking
TrackZ == -5 * Scale - 100

\* ten units ahead of the player
LeadZ == -10 * Scale

\* just outside the reach of the magnet
MagnetZ == -40 * Scale - 100

\* the farthest static entity of a populated track: the place the planner
\* gives an entity when the horizon has just passed the spawn distance
FenceZ(lvl, spd) == SpawnZ(-SPAWN_DISTANCE + 1, lvl, spd)

Fence(lvl, spd) == Placed(1, "OBSTACLE", LANE_WIDTH, FenceZ(lvl, spd), lvl)

\* a Barrier in the outermost lane of either side, heading out or in
EdgeBarrier(side, dir, lvl) ==
    [Placed(2, "BARRIER", side * (LaneCountAt(lvl) \div 2) * LANE_WIDTH, NearZ, lvl)
        EXCEPT !.moveDirection = dir]

\* the entities in front of the fence
CollideSubjects(lvl) ==
    {<<Placed(2, t, 0, NearZ, lvl)>> : t \in ObjectType}
    \cup {<<Placed(2, t, 0, ThresholdZ(t), lvl)>> : t \in {"TURRET", "ALIEN"}}
    \cup {<<Placed(2, t, 0, RemovalZ, lvl)>> : t \in {"OBSTACLE", "GEM"}}
    \cup {<<Spent(Placed(2, "OBSTACLE", 0, RemovalZ, lvl))>>}
    \cup {<<Placed(2, "DRONE", x, TrackZ, lvl)>> : x \in {-LANE_WIDTH, LANE_WIDTH}}
    \cup {<<Spent(Placed(2, "DRONE", LANE_WIDTH, TrackZ, lvl))>>}
    \cup {<<Placed(2, "DRONE", LANE_WIDTH, LeadZ, lvl)>>}
    \cup {<<Placed(2, "GEM", 0, MagnetZ, lvl)>>}
    \cup {<<EdgeBarrier(side, dir, lvl)>> : side \in {-1, 1}, dir \in {-1, 1}}
    \cup {<<Spent(EdgeBarrier(1, 1, lvl))>>}
    \cup {<<Placed(2, "GEM", 0, NearZ, lvl), Placed(3, "OBSTACLE", 0, NearZ, lvl)>>,
          <<Placed(2, "TURRET", 0, ThresholdZ("TURRET"), lvl),
            Placed(3, "LETTER", 0, NearZ, lvl)>>}

HasType(objs, t) == \E i \in 1 .. Len(objs) : objs[i].type = t

PlayerXs == {0, Scale}
PlayerYs == {0, (8 * Scale) \div 10, (25 * Scale) \div 10}

NoCall == [op |-> "none", arg |-> 0, n |-> 0]

InitRun(st, objs, player, dist, threshold, n0) ==
    /\ store = st
    /\ props = st
    /\ objects = objs
    /\ prevStatus = st.status
    /\ prevLevel = st.level
    /\ distanceTraveled = dist
    /\ nextLetterDistance = threshold
    /\ playerPos = player
    /\ nextId = Len(objs) + 1
    /\ tickLog = [EmptyLog EXCEPT !.n = n0]
    /\ lastCall = NoCall

Init ==
    InitRun(InitialStore, <<>>, [x |-> 0, y |-> 0, z |-> 0, resolved |-> FALSE], 0,
            BASE_LETTER_INTERVAL, 0)

\* A populated track with entities about to reach the player, a firing
\* threshold or the removal distance; the next letter is not due.  Level 7
\* (advanceLevel) is the first level whose planner makes every entity type;
\* speed 80 is calculateSpeed(7000), 90 world units per second, at which a
\* clamped tick moves an entity further than the collision zone is deep.
InitCollide ==
    \E spd \in {10, 80}, subj \in CollideSubjects(7), magnet \in BOOLEAN,
       px \in PlayerXs, py \in PlayerYs :
        /\ magnet => HasType(subj, "GEM")
        /\ InitRun(PlayingStore(7, spd, {}, magnet), <<Fence(7, spd)>> \o subj,
                   [x |-> px, y |-> py, z |-> 0, resolved |-> TRUE],
                   1000 * Scale, 1100 * Scale, 0)

\* A LaserGate about to reach a player who stands or jumps in the centre
\* lane or in the lane on either side of it (x = -2.2, 0, 2.2), at the level
\* that unlocks the gate (width 3) and at level 7 (width 4).
InitGate ==
    \E lvl \in {4, 7}, spd \in {10, 80}, lane \in -1 .. 1, py \in PlayerYs :
        InitRun(PlayingStore(lvl, spd, {}, FALSE),
                <<Fence(lvl, spd), Placed(2, "LASER_GATE", 0, NearZ, lvl)>>,
                [x |-> lane * LANE_WIDTH, y |-> py, z |-> 0, resolved |-> TRUE],
                1000 * Scale, 1100 * Scale, 0)

\* The same track before the frame callback has found the player object:
\* the host has not put it in the scene, or puts it there during the
\* explored ticks.  An entity of any type is about to reach the origin.
InitUnresolved ==
    \E subj \in {<<Placed(2, t, 0, NearZ, 7)>> : t \in ObjectType},
       px \in PlayerXs, py \in PlayerYs :
        InitRun(PlayingStore(7, 10, {}, FALSE), <<Fence(7, 10)>> \o subj,
                [x |-> px, y |-> py, z |-> 0, resolved |-> FALSE],
                1000 * Scale, 1100 * Scale, 0)

\* The planner scenarios observe one tick.  The farthest static entity is
\* about to pass the spawn distance, which opens the gate, and the distance
\* is about to reach the next-letter threshold or is far from it; or the
\* run has just started (empty registry, the fallback horizon).  All six
\* letters are in the set while PLAYING after closeShop or setStatus, which
\* leave the set as it is.  The farthest entity may also stand exactly at the
\* spawn distance, or be a Drone, which the horizon does not count.
GateZ == -SPAWN_DISTANCE - 50

InitSpawn ==
    \E lvl \in {1, 3}, fresh \in BOOLEAN, gem \in BOOLEAN,
       collected \in {{}, {1, 2, 3, 4, 5}, {0, 1, 2, 3, 4, 5}}, due \in BOOLEAN,
       far \in {"OBSTACLE", "DRONE"}, farZ \in {GateZ, -SPAWN_DISTANCE},
       spd \in {10, 80} :
        /\ ~due => collected = {}
        /\ fresh => lvl = 1 /\ ~due /\ ~gem
        /\ (fresh \/ due \/ gem) => far = "OBSTACLE" /\ farZ = GateZ
        /\ far = "DRONE" => lvl = 3
        /\ spd = 80 => lvl = 3 /\ ~due /\ ~gem /\ far = "OBSTACLE" /\ farZ = GateZ
        /\ InitRun(PlayingStore(lvl, spd, collected, FALSE),
                   IF fresh THEN <<>>
                   ELSE <<Placed(1, far, LANE_WIDTH, farZ, lvl)>>
                        \o (IF gem THEN <<Placed(2, "GEM", 0, NearZ, lvl)>> ELSE <<>>),
                   [x |-> 0, y |-> 0, z |-> 0, resolved |-> TRUE],
                   IF fresh THEN 0 ELSE 1000 * Scale,
                   IF fresh THEN BASE_LETTER_INTERVAL
                   ELSE IF due THEN 1000 * Scale + 90 ELSE 1100 * Scale,
                   MaxTicks - 1)

\* The snapshot scenarios observe one planner tick in which a pickup may
\* change the store before the loop and the planner are done: a Gem, the
\* first Letter (the sixth of the level if five are held) or a Magnet
\* reaches the player; a Gem follows it in the registry, next to it or ten
\* units ahead in the next lane, within the reach of a magnet; the farthest
\* entity is about to pass the spawn distance; a letter is due or is not.
InitSnapshot ==
    \E lvl \in {1, 2}, near \in {"GEM", "LETTER", "MAGNET"},
       second \in {[x |-> 0, z |-> NearZ], [x |-> LANE_WIDTH, z |-> LeadZ]},
       collected \in {{}, {1, 2, 3, 4, 5}}, due \in BOOLEAN :
        InitRun(PlayingStore(lvl, 10, collected, FALSE),
                <<Placed(1, near, 0, NearZ, lvl),
                  Placed(2, "GEM", second.x, second.z, lvl),
                  Placed(3, "OBSTACLE", LANE_WIDTH, GateZ, lvl)>>,
                [x |-> 0, y |-> 0, z |-> 0, resolved |-> TRUE],
                1000 * Scale,
                IF due THEN 1000 * Scale + 90 ELSE 1100 * Scale,
                MaxTicks - 1)

\* mid-field
MidZ == -50 * Scale

\* The creation scenarios observe two ticks: an Alien is about to pass its
\* firing threshold and the farthest entity the spawn distance, so that the
\* first tick can create a Missile and a spawn for the second to process;
\* or, in place of the Alien, a Gem is about to reach the player ahead of an
\* Obstacle in mid-field.
InitCreate ==
    \E spd \in {10, 80},
       near \in {<<Placed(1, "ALIEN", 0, ThresholdZ("ALIEN"), 3)>>,
                 <<Placed(1, "GEM", 0, NearZ, 3),
                   Placed(2, "OBSTACLE", -LANE_WIDTH, MidZ, 3)>>} :
        /\ Len(near) = 2 => spd = 10
        /\ InitRun(PlayingStore(3, spd, {}, FALSE),
                near \o <<Placed(Len(near) + 1, "OBSTACLE", LANE_WIDTH, GateZ, 3)>>,
                [x |-> 0, y |-> 0, z |-> 0, resolved |-> TRUE],
                1000 * Scale, 1100 * Scale, MaxTicks - 2)

\* The removal scenarios follow a run of level 1 at 90 units per second until
\* the track is empty.  The letter that was placed ten units ago is still far
\* ahead; near the player is a spent entity, or a Gem that has passed the
\* player in the next lane and that a magnet holds back.  The planner may
\* place entities up to the identifier LiveIds in the first SpawnWindow ticks;
\* a magnet runs for MagnetWindow ticks at most.  Every tick is of full
\* length.
LiveTicks == 60
LiveIds == 3
SpawnWindow == 2
MagnetWindow == 4
BehindZ == 5 * Scale
LetterZ == -SPAWN_DISTANCE + 10 * Scale

RemovalSubjects ==
    {<<Spent(Placed(1, "OBSTACLE", 0, NearZ, 1))>>,
     <<Placed(1, "GEM", LANE_WIDTH, BehindZ, 1)>>}

InitRemoval ==
    \E subj \in RemovalSubjects, magnet \in BOOLEAN :
        /\ magnet => HasType(subj, "GEM")
        /\ InitRun(PlayingStore(1, 80, {}, magnet),
                   subj \o <<Placed(2, "LETTER", LANE_WIDTH, LetterZ, 1)>>,
                   [x |-> 0, y |-> 0, z |-> 0, resolved |-> TRUE],
                   1000 * Scale, 1190 * Scale, MaxTicks - LiveTicks)

\* a tick of the premise: the world advances; the entities, the spawn ticks
\* and the run of a magnet are within the explored bounds; a tick over an
\* empty track that places nothing is left out
LiveTick ==
    /\ store.magnetActive => tickLog.n < MaxTicks - LiveTicks + MagnetWindow
    /\ Frame({100}, IF tickLog.n < MaxTicks - LiveTicks + SpawnWindow
                    THEN LiveIds + 1 - nextId ELSE 0)
    /\ objects # <<>> \/ tickLog'.spawned # <<>>

\* The level scenarios observe one planner tick at every level up to the
\* one that unlocks the last entity type: the farthest entity passes the
\* spawn distance in a tick of full length, a gem is about to reach the
\* player and no letter is due.
TopLevel == 7

InitLevels ==
    \E lvl \in 1 .. TopLevel :
        InitRun(PlayingStore(lvl, 10, {}, FALSE),
                <<Placed(1, "OBSTACLE", LANE_WIDTH, GateZ - 50, lvl),
                  Placed(2, "GEM", 0, NearZ, lvl)>>,
                [x |-> 0, y |-> 0, z |-> 0, resolved |-> TRUE],
                1000 * Scale, 1100 * Scale, MaxTicks - 1)

\* The store on its own: a call of one of its functions from a state of a
\* run, as the frame callback and the listeners of its events make them.
StoreCall(op, arg, s1) ==
    /\ lastCall.n < MaxCalls
    /\ store' = s1
    /\ lastCall' = [op |-> op, arg |-> arg, n |-> lastCall.n + 1]
    /\ UNCHANGED <<props, objects, prevStatus, prevLevel, distanceTraveled,
                   nextLetterDistance, playerPos, nextId, tickLog>>

CallCollectLetter ==
    \E index \in 0 .. (Len(GEMINI_TARGET) - 1) :
        StoreCall("collectLetter", index, collectLetter(store, index))

CallTakeDamage == StoreCall("takeDamage", 0, takeDamage(store))

\* the states of a run: a level that letter collection reaches, some of the
\* letters, one to three lives, the shield timer and the immortality skill
\* running or not
InitStore ==
    \E lvl \in 1 .. MAX_LEVEL, lives \in 1 .. 3, shield \in BOOLEAN, immortal \in BOOLEAN,
       collected \in {{}, {0, 1, 2}, {1, 2, 3, 4, 5}, {0, 1, 2, 3, 4}} :
        InitRun([PlayingStore(lvl, 10, collected, FALSE)
                    EXCEPT !.lives = lives, !.shieldActive = shield,
                           !.isImmortalityActive = immortal],
                <<>>, [x |-> 0, y |-> 0, z |-> 0, resolved |-> TRUE], 0, BASE_LETTER_INTERVAL, 0)

\* A run about to end or to change level.  Behind the farthest entity and
\* one in mid-field, the player's lane holds an Obstacle (with one life
\* left), the last missing Letter, or the ShopPortal of an earlier level-up.

\* what lies in front of the player in a lifecycle run: one entity about to
\* reach the player behind a far gem, or a missile and the last missing
\* letter about to reach the player in the same frame, in either order
LifeKinds == {"OBSTACLE", "LETTER", "SHOP_PORTAL", "MISSILE_LETTER", "LETTER_MISSILE"}

LifeSubjects(kind, lvl) ==
    CASE kind = "MISSILE_LETTER" ->
            <<Placed(2, "MISSILE", 0, NearZ, lvl), Placed(3, "LETTER", 0, NearZ, lvl)>>
      [] kind = "LETTER_MISSILE" ->
            <<Placed(2, "LETTER", 0, NearZ, lvl), Placed(3, "MISSILE", 0, NearZ, lvl)>>
      [] OTHER ->
            <<Placed(2, "GEM", LANE_WIDTH, MidZ, lvl), Placed(3, kind, 0, NearZ, lvl)>>

InitLife ==
    \E lvl \in 1 .. MAX_LEVEL, kind \in LifeKinds :
        /\ kind = "SHOP_PORTAL" => lvl > 1
        /\ InitRun([PlayingStore(lvl, 10,
                                 IF kind \in {"OBSTACLE", "SHOP_PORTAL"} THEN {}
                                 ELSE {1, 2, 3, 4, 5},
                                 FALSE)
                        EXCEPT !.lives = IF kind \in {"LETTER", "SHOP_PORTAL"} THEN 3
                                         ELSE 1],
                   <<Fence(lvl, 10)>> \o LifeSubjects(kind, lvl),
                   [x |-> 0, y |-> 0, z |-> 0, resolved |-> TRUE],
                   1000 * Scale + 7, 1100 * Scale, MaxTicks - 2)

Next == Tick \/ Render \/ MagnetExpires \/ StartGame \/ RestartGame \/ CloseShop
        \/ GoToMenu
NextRun == Tick \/ Render
NextLife == Tick \/ Render \/ StartGame \/ RestartGame \/ CloseShop \/ GoToMenu
NextStore == CallCollectLetter \/ CallTakeDamage

\* a call of the store from anywhere, in any status, with the value it returns
AnyCall(op, item, arg, ret, s1) ==
    /\ lastCall.n < ShopCalls
    /\ store' = s1
    /\ lastCall' = [op |-> op, arg |-> arg, n |-> lastCall.n + 1,
                    item |-> item, ret |-> ret]
    /\ UNCHANGED <<props, objects, prevStatus, prevLevel, distanceTraveled,
                   nextLetterDistance, playerPos, nextId, tickLog>>

\* the prices asked of buyItem: nothing, and the price of a cheap and of a
\* dear item
Costs == {0, 100, 250}

AnyStartGame == AnyCall("startGame", "none", 0, TRUE, startGame(store))

AnyRestartGame == AnyCall("restartGame", "none", 0, TRUE, restartGame(store))

AnyTakeDamage == AnyCall("takeDamage", "none", 0, TRUE, takeDamage(store))

AnyBuyItem ==
    \E type \in ItemTypes, cost \in Costs :
        LET r == buyItem(store, type, cost)
        IN  AnyCall("buyItem", type, cost, r.ret, r.store)

AnyCollectGem ==
    LET value == getDifficultyConfig(store.level).gemBaseValue
    IN  AnyCall("collectGem", "none", value, TRUE, collectGem(store, value))

AnyCollectLetter ==
    \E index \in 0 .. (Len(GEMINI_TARGET) - 1) :
        AnyCall("collectLetter", "none", index, TRUE, collectLetter(store, index))

AnyOpenShop == AnyCall("openShop", "none", 0, TRUE, openShop(store))

AnyCloseShop == AnyCall("closeShop", "none", 0, TRUE, closeShop(store))

\* the store after construction, and the stores of a run at level 1 or 2 with
\* the score of the speed and one to three lives
InitShop ==
    \/ Init
    \/ \E lvl \in 1 .. 2, spd \in {10, 12}, lives \in 1 .. 3 :
           InitRun([PlayingStore(lvl, spd, {}, FALSE) EXCEPT !.lives = lives],
                   <<>>, [x |-> 0, y |-> 0, z |-> 0, resolved |-> TRUE], 0,
                   BASE_LETTER_INTERVAL, 0)

NextShop ==
    \/ AnyStartGame \/ AnyRestartGame \/ AnyTakeDamage \/ AnyBuyItem
    \/ AnyCollectGem \/ AnyCollectLetter \/ AnyOpenShop \/ AnyCloseShop

NextLive == LiveTick \/ Render \/ MagnetExpires

Spec == Init /\ [][Next]_vars
SpecCollide == InitCollide /\ [][NextRun]_vars
SpecSpawn == InitSpawn /\ [][NextRun]_vars
SpecLife == InitLife /\ [][NextLife]_vars
SpecStore == InitStore /\ [][NextStore]_vars
SpecLevels == InitLevels /\ [][NextRun]_vars
SpecUnresolved == InitUnresolved /\ [][NextRun]_vars
SpecSnapshot == InitSnapshot /\ [][NextRun]_vars
SpecCreate == InitCreate /\ [][NextRun]_vars
SpecShop == InitShop /\ [][NextShop]_vars
SpecGate == InitGate /\ [][NextRun]_vars

\* a state in which a tick of the premise can be taken: no render is pending,
\* the run is on, the track is not empty, the magnet is within its explored
\* run and no letter can fall due (the planner then may place nothing)
CanTick ==
    /\ props = store
    /\ tickLog.n < MaxTicks
    /\ ~Gated(props.status)
    /\ objects # <<>>
    /\ store.magnetActive => tickLog.n < MaxTicks - LiveTicks + MagnetWindow
    /\ ~IsLetterDue(distanceTraveled + WorldStep(props.speed, SafeDelta(100)),
                    nextLetterDistance)

\* a step of LiveTick, the only action that counts a frame
Ticked == tickLog'.n = tickLog.n + 1

\* weak fairness of the tick, WF_vars(LiveTick), spelled out: CanTick for the
\* states in which the tick is enabled, Ticked for its steps
TickFair == []<>(~CanTick) \/ []<><<Ticked>>_vars

\* The host calls the frame callback for every animation frame, React
\* commits a pending render before the next frame, and the clock runs.
SpecRemoval ==
    /\ InitRemoval /\ [][NextLive]_vars
    /\ TickFair /\ WF_vars(Render) /\ WF_vars(MagnetExpires)


----------------------------------------------------------------------------
(* Properties.  A step of the tick is a step that advances the tick count   *)
(* of a PLAYING run; tickLog' then describes that tick.                     *)

IsTickStep == tickLog'.n = tickLog.n + 1 /\ props.status = "PLAYING"

Indices(seq) == 1 .. Len(seq)

\* the signals and callbacks of one tick that name the entity id
SignalsOf(log, id) == {j \in Indices(log.events) : log.events[j].id = id}

\* among them, the interaction outcomes: a hit, a pickup, a shop entry
OutcomesOf(log, id) ==
    {j \in SignalsOf(log, id) :
        \/ log.events[j].kind = "openShop"
        \/ log.events[j].kind = "particle-burst" /\ log.events[j].arg \in {"hit", "collect"}}

MissilesOf(log, id) == {j \in Indices(log.fired) : log.fired[j].by = id}

\* what C1 asks of one tick
C1_Step ==
    IsTickStep =>
        \A i \in Indices(objects) :
            LET id == objects[i].id IN
            /\ ~objects[i].active =>
                /\ SignalsOf(tickLog', id) = {}
                /\ MissilesOf(tickLog', id) = {}
                /\ id \notin tickLog'.cands
                /\ \A k \in Indices(objects') :
                        objects'[k].id = id =>
                            ~objects'[k].active /\ objects'[k].outcomes = objects[i].outcomes
            /\ Cardinality(OutcomesOf(tickLog', id)) + objects[i].outcomes <= 1

\* C1: an entity whose active flag is false takes part in no collision or
\* interaction in any later tick, emits no signal, fires nothing and stays
\* inactive; over its lifetime an entity has at most one interaction
\* outcome.
C1_InactiveTakesNoPart ==
    /\ [](\A i \in Indices(objects) :
            /\ objects[i].outcomes <= 1
            /\ objects[i].active => objects[i].outcomes = 0)
    /\ [][C1_Step]_vars

\* an entity that was hit or picked up is carried through a later tick
\* while it is still inside the collision window of the player's lane
C1_Witness ==
    \E i \in Indices(objects) :
        /\ ~objects[i].active
        /\ objects[i].idle >= 1
        /\ objects[i].outcomes = 1
        /\ Abs(objects[i].z - playerPos.z) < 2 * Scale
        /\ Abs(objects[i].x - playerPos.x) < HitDist(objects[i].type)

\* C2: an entity deactivated in tick N is out of the registry by the end of
\* tick N + 2: no inactive entity of the registry has been carried through
\* two ticks since its deactivation.
C2_PurgedWithinTwoTicks ==
    \A i \in Indices(objects) : ~objects[i].active => objects[i].idle < 2

\* what C3 asks of one tick
C3_Step ==
    IsTickStep =>
        /\ \A j \in Indices(tickLog'.fired) :
                /\ tickLog'.fired[j].type = "MISSILE"
                /\ \E i \in Indices(objects) :
                    /\ objects[i].id = tickLog'.fired[j].by
                    /\ objects[i].active
                    /\ objects[i].shots = 0
                    /\ \/ objects[i].type = "TURRET"
                          /\ objects[i].z + tickLog'.dist > -80 * Scale
                       \/ objects[i].type = "ALIEN"
                          /\ objects[i].z + tickLog'.dist > -90 * Scale
        /\ \A i \in Indices(objects) :
                /\ Cardinality(MissilesOf(tickLog', objects[i].id)) <= 1
                /\ \A k \in Indices(objects') :
                        objects'[k].id = objects[i].id =>
                            /\ objects[i].hasFired => objects'[k].hasFired
                            /\ objects'[k].shots =
                                 objects[i].shots
                                 + Cardinality(MissilesOf(tickLog', objects[i].id))
        /\ \A k \in Indices(objects') :
                (objects'[k].type = "MISSILE"
                 /\ \A i \in Indices(objects) : objects[i].id # objects'[k].id)
                => \E j \in Indices(tickLog'.fired) : tickLog'.fired[j] = objects'[k]

\* C3: a Turret or an Alien adds at most one Missile in its lifetime, in a
\* tick in which it is active and its forward coordinate has passed its
\* threshold (-80 for the Turret, -90 for the Alien); once set, hasFired
\* stays set.
C3_ShooterFiresOnce ==
    /\ [](\A i \in Indices(objects) :
            /\ objects[i].shots <= 1
            /\ objects[i].shots = 1 => objects[i].hasFired)
    /\ [][C3_Step]_vars

\* a shooter that fired in an earlier tick has gone through a tick, still
\* active and past its threshold, without firing again
C3_Witness ==
    /\ tickLog.fired = <<>>
    /\ \E i \in Indices(objects) :
        /\ objects[i].type \in {"TURRET", "ALIEN"}
        /\ objects[i].active
        /\ objects[i].shots = 1
        /\ \E k \in Indices(objects) :
            objects[k].type = "MISSILE" /\ objects[k].by = objects[i].id


\* the entities of one kind a tick's planner created
SpawnedOf(log, type) == {i \in Indices(log.spawned) : log.spawned[i].type = type}

\* C4: the hazards of one multi-hazard spawn (standard obstacles, an alien
\* squad, a spike cluster) occupy pairwise distinct lanes, each lane within
\* -floor(laneCount/2) .. +floor(laneCount/2), and they are no more than
\* the lanes.
C4_DistinctLanes ==
    \A type \in {"OBSTACLE", "ALIEN", "SPIKE_FLOOR"} :
        LET S == SpawnedOf(tickLog, type)
            half == tickLog.laneCount \div 2
        IN  /\ \A i, j \in S : i # j => tickLog.spawned[i].x # tickLog.spawned[j].x
            /\ \A i \in S : \E lane \in (-half) .. half :
                    tickLog.spawned[i].x = lane * LANE_WIDTH
            /\ Cardinality(S) <= 2 * half + 1

\* three hazards of one kind were created on a track of three lanes
C4_Witness ==
    /\ tickLog.laneCount = 3
    /\ \E type \in {"OBSTACLE", "ALIEN", "SPIKE_FLOOR"} :
            Cardinality(SpawnedOf(tickLog, type)) = 3

C6_GemWhenAllCollected ==
    (tickLog.gate /\ tickLog.due /\ (0 .. 5) \subseteq tickLog.collected) =>
        /\ Len(tickLog.spawned) = 1
        /\ tickLog.spawned[1].type = "GEM"
        /\ tickLog.spawned[1].points = 50 + 10 * (tickLog.level - 1)

\* such a tick at level 3
C6_Witness ==
    /\ tickLog.gate /\ tickLog.due /\ (0 .. 5) \subseteq tickLog.collected
    /\ tickLog.level = 3
    /\ SpawnedOf(tickLog, "GEM") # {}

\* what C7 asks of one tick
C7_Step ==
    IsTickStep =>
        LET letterDue == /\ tickLog'.gate
                         /\ distanceTraveled' >= nextLetterDistance
                         /\ (0 .. 5) \ props.collectedLetters # {}
            interval == 200 * Scale + (4 * 200 * Scale * (props.level - 1)) \div 10
        IN  /\ letterDue =>
                /\ Len(tickLog'.spawned) = 1
                /\ tickLog'.spawned[1].type = "LETTER"
                /\ nextLetterDistance' = nextLetterDistance + interval
            /\ ~letterDue =>
                /\ SpawnedOf(tickLog', "LETTER") = {}
                /\ nextLetterDistance' = nextLetterDistance

\* C7: when the gate is open, the distance has reached the next-letter
\* threshold and an index is unclaimed, the tick creates exactly one entity,
\* a Letter, and raises the threshold by 200 * (1 + 0.4 * (level - 1));
\* otherwise the tick leaves the threshold as it is.
C7_LetterAndThreshold == [][C7_Step]_vars

\* a Letter was created at level 3 and the threshold moved by 360 units
C7_Witness ==
    /\ tickLog.gate /\ tickLog.due /\ tickLog.level = 3
    /\ SpawnedOf(tickLog, "LETTER") # {}
    /\ nextLetterDistance = 1000 * Scale + 90 + 360 * Scale


\* the entity id after the step, where the registry still holds it
InPost(id) == \E k \in Indices(objects') : objects'[k].id = id

PostOf(id) == objects'[CHOOSE k \in Indices(objects') : objects'[k].id = id]

\* what C8 asks of one tick
C8_Step ==
    IsTickStep =>
        LET clamped == IF tickLog'.delta < 50 THEN tickLog'.delta ELSE 50
            step == (9 * props.speed * clamped * Scale) \div 8000
            missileStep == step + (30 * clamped * Scale) \div 1000
            most == (9 * props.speed * 50 * Scale) \div 8000
        IN  /\ distanceTraveled' = distanceTraveled + step
            /\ step >= 0 /\ step <= most
            /\ \A i \in Indices(objects) :
                InPost(objects[i].id) =>
                    LET z0 == objects[i].z
                        z1 == PostOf(objects[i].id).z
                        pulledGem == /\ objects[i].type = "GEM"
                                     /\ objects[i].active
                                     /\ props.magnetActive
                    IN  ~pulledGem =>
                            /\ z1 = z0 + (IF objects[i].type = "MISSILE"
                                          THEN missileStep ELSE step)
                            /\ z1 >= z0
                            /\ z1 - z0 <= most + (30 * 50 * Scale) \div 1000

\* C8: every tick advances every registered entity by speed * min(delta,
\* 0.05), a Missile by (speed + 30) * min(delta, 0.05); no entity other than
\* a Gem under magnet pull has its forward coordinate decrease; and no tick
\* advances the world by more than speed * 0.05.
C8_UniformAdvance == [][C8_Step]_vars

\* a tick of 100 ms was clamped to 50 ms and moved a Missile of the registry
C8_Witness ==
    /\ tickLog.delta = 100
    /\ tickLog.dist = (9 * tickLog.speed * 50 * Scale) \div 8000
    /\ tickLog.dist > 0
    /\ \E i \in Indices(objects) :
        objects[i].type = "MISSILE" /\ objects[i].by = 0 /\ objects[i].z > NearZ

\* the vertical band of a damage source, as the claim lists it
ClaimedBand(type, y) ==
    CASE type = "OBSTACLE"    -> <<0, (16 * Scale) \div 10>>
      [] type = "MISSILE"     -> <<(5 * Scale) \div 10, (15 * Scale) \div 10>>
      [] type = "LASER_GATE"  -> <<(5 * Scale) \div 10, (12 * Scale) \div 10>>
      [] type = "BARRIER"     -> <<0, (25 * Scale) \div 10>>
      [] type \in {"SPIKE_FLOOR", "TURRET"} -> <<0, (8 * Scale) \div 10>>
      [] type \in {"DRONE", "ALIEN"} -> <<y - (5 * Scale) \div 10, y + (5 * Scale) \div 10>>

\* the player's body [playerY, playerY + 1.8] and a band share more than a point
BodyOverlaps(band) ==
    playerPos.y < band[2] /\ playerPos.y + (18 * Scale) \div 10 > band[1]

HitSignals(log, id) == {j \in SignalsOf(log, id) : log.events[j].kind = "player-hit"}

CollisionSignals(log, id) == {j \in SignalsOf(log, id) : log.events[j].arg # "fire"}

\* what C9 asks of one tick
C9_Step ==
    IsTickStep =>
        \A i \in Indices(objects) :
            (objects[i].active /\ objects[i].type \in DamageTypes) =>
                LET id == objects[i].id IN
                IF ~InPost(id) THEN CollisionSignals(tickLog', id) = {}
                ELSE LET post == PostOf(id)
                         window == /\ objects[i].z < playerPos.z + 2 * Scale
                                   /\ post.z > playerPos.z - 2 * Scale
                         lateral == Abs(post.x - playerPos.x) < (9 * Scale) \div 10
                         vertical == BodyOverlaps(ClaimedBand(post.type, post.y))
                         hit == HitSignals(tickLog', id) # {}
                     IN  /\ hit <=> (window /\ lateral /\ vertical)
                         /\ hit => ~post.active /\ Cardinality(HitSignals(tickLog', id)) = 1
                         /\ ~hit => post.active /\ CollisionSignals(tickLog', id) = {}

\* C9: an active damage source is hit in a tick exactly when its forward
\* window meets the collision zone (previous z < playerZ + 2, current z >
\* playerZ - 2), |x - playerX| < 0.9 and the player's body overlaps the
\* type's vertical band; a hit deactivates it with exactly one player-hit
\* signal; otherwise it stays active and emits no collision signal.
C9_HitExactlyOnOverlap == [][C9_Step]_vars

\* a moving Barrier hit the player, who lost a life
C9_Witness ==
    /\ store.lives < store.maxLives
    /\ \E i \in Indices(objects) :
        /\ objects[i].type = "BARRIER"
        /\ ~objects[i].active
        /\ HitSignals(tickLog, objects[i].id) # {}

\* what C10 asks of one tick
C10_Step ==
    IsTickStep =>
        \A i \in Indices(objects) :
            (/\ objects[i].active
             /\ objects[i].type # "SHOP_PORTAL"
             /\ InPost(objects[i].id)
             /\ objects[i].z <= playerPos.z - 2 * Scale
             /\ PostOf(objects[i].id).z > playerPos.z - 2 * Scale) =>
                LET id == objects[i].id
                    post == PostOf(id)
                IN  /\ id \in tickLog'.cands
                    /\ (/\ objects[i].type \in DamageTypes
                        /\ Abs(post.x - playerPos.x) < (9 * Scale) \div 10
                        /\ BodyOverlaps(ClaimedBand(post.type, post.y)))
                       => HitSignals(tickLog', id) # {}

\* C10: an active non-portal entity that reaches or crosses the collision
\* zone within one tick, even from z < playerZ - 2 to z > playerZ + 2, is a
\* collision candidate of that tick; a damage source in lateral and vertical
\* overlap with the player does not get past without a hit.
C10_NoTunneling == [][C10_Step]_vars

\* an entity that was hit is behind the zone after one tick that started
\* with it ahead of the zone
C10_Witness ==
    \E i \in Indices(objects) :
        /\ objects[i].id \in tickLog.cands
        /\ HitSignals(tickLog, objects[i].id) # {}
        /\ objects[i].type # "MISSILE"
        /\ objects[i].z > playerPos.z + 2 * Scale
        /\ objects[i].z - tickLog.dist < playerPos.z - 2 * Scale


PickupTypes == {"GEM", "LETTER", "MAGNET", "SHIELD", "JUMP_PAD", "SPEED_BOOST"}

\* the store callbacks of pickups that one tick made for the entity id
PickupCalls(log, id) ==
    {j \in SignalsOf(log, id) :
        log.events[j].kind \in {"collectGem", "collectLetter", "activateMagnet",
                                "activateShield"}}

\* the callback the claim gives each pickup type, as <<kind, argument>>
ClaimedCall(obj) ==
    CASE obj.type = "GEM"    -> {<<"collectGem", obj.points>>}
      [] obj.type = "LETTER" -> {<<"collectLetter", obj.targetIndex>>}
      [] obj.type = "MAGNET" -> {<<"activateMagnet", 0>>}
      [] obj.type = "SHIELD" -> {<<"activateShield", 0>>}
      [] OTHER               -> {}

\* what C11 asks of one tick
C11_Step ==
    IsTickStep =>
        \A i \in Indices(objects) :
            LET id == objects[i].id IN
            /\ (objects[i].active /\ objects[i].type \in PickupTypes /\ InPost(id)) =>
                LET post == PostOf(id)
                    reach == IF post.type \in {"MAGNET", "SHIELD"}
                             THEN (15 * Scale) \div 10 ELSE (9 * Scale) \div 10
                    inReach == /\ objects[i].z < playerPos.z + 2 * Scale
                               /\ post.z > playerPos.z - 2 * Scale
                               /\ Abs(post.x - playerPos.x) < reach
                               /\ Abs(post.y - playerPos.y) < (25 * Scale) \div 10
                IN  /\ inReach =>
                        /\ ~post.active
                        /\ {<<tickLog'.events[j].kind, tickLog'.events[j].arg>> :
                                j \in PickupCalls(tickLog', id)} = ClaimedCall(objects[i])
                        /\ Cardinality(PickupCalls(tickLog', id))
                             = Cardinality(ClaimedCall(objects[i]))
                    /\ HitSignals(tickLog', id) = {}
            /\ objects[i].type \notin PickupTypes => PickupCalls(tickLog', id) = {}

\* C11: an active pickup (neither damage source nor ShopPortal) in the
\* forward window with |x - playerX| below its threshold (1.5 for Magnet and
\* Shield, 0.9 otherwise) and |y - playerY| < 2.5 is deactivated and the
\* store callback depends on its type alone: Gem -> collectGem(points),
\* Letter -> collectLetter(targetIndex), Magnet -> activateMagnet, Shield ->
\* activateShield, JumpPad and SpeedBoost -> none; a pickup never signals
\* player-hit and no other entity invokes a pickup callback.
C11_PickupByType == [][C11_Step]_vars

\* a Magnet one world unit beside the player was picked up
C11_Witness ==
    \E i \in Indices(objects) :
        /\ objects[i].type = "MAGNET"
        /\ ~objects[i].active
        /\ Abs(objects[i].x - playerPos.x) = Scale
        /\ PickupCalls(tickLog, objects[i].id) # {}
        /\ store.magnetActive


ShopSignals(log, id) == {j \in SignalsOf(log, id) : log.events[j].kind = "openShop"}

\* what C12 asks of one tick
C12_Step ==
    IsTickStep =>
        \A i \in Indices(objects) :
            (objects[i].active /\ objects[i].type = "SHOP_PORTAL") =>
                LET id == objects[i].id
                    z1 == objects[i].z + tickLog'.dist
                    near == Abs(z1 - playerPos.z) < 2 * Scale
                IN  /\ near <=> ShopSignals(tickLog', id) # {}
                    /\ near => /\ Cardinality(ShopSignals(tickLog', id)) = 1
                               /\ ~InPost(id)
                    /\ (~near /\ z1 <= 20 * Scale) => InPost(id) /\ PostOf(id).active
                    /\ SignalsOf(tickLog', id) = ShopSignals(tickLog', id)

\* C12: an active ShopPortal triggers in a tick exactly when |z - playerZ|
\* < 2 after its advance, whatever the player's lane and height; on trigger
\* it calls openShop exactly once and leaves the registry in that tick; a
\* ShopPortal never signals player-hit nor invokes a pickup callback.
C12_PortalTrigger == [][C12_Step]_vars

\* the portal was entered by a player one unit off its lane and in the air
C12_Witness ==
    /\ \E j \in Indices(tickLog.events) : tickLog.events[j].kind = "openShop"
    /\ store.status = "SHOP"
    /\ playerPos.x # 0 /\ playerPos.y # 0
    /\ \A i \in Indices(objects) : objects[i].type # "SHOP_PORTAL"


\* what C13 asks of one tick
C13_Step ==
    IsTickStep =>
        \A i \in Indices(objects) :
            InPost(objects[i].id) => PostOf(objects[i].id).z <= 20 * Scale

\* C13: at the end of every executed tick no entity the tick processed is in
\* the registry with a forward coordinate greater than the removal distance
\* 20, active or not.
C13_NoneBeyondRemoval == [][C13_Step]_vars

\* an inactive entity was removed for its distance
C13_Witness ==
    \E r \in tickLog.removed :
        /\ ~r.active
        /\ \A i \in Indices(objects) : objects[i].id # r.id


\* a step in which LevelManager renders the store's values
IsRenderStep == props' # props

\* a step of the frame callback, executed or gated
IsFrameStep == tickLog'.n = tickLog.n + 1

\* what C14 asks of one step
C14_Step ==
    /\ IsRenderStep =>
        LET toMenu == store.status = "MENU" /\ props.status # "MENU"
            restart == /\ store.status = "PLAYING"
                       /\ props.status \in {"GAME_OVER", "VICTORY"}
        IN  (toMenu \/ restart) =>
                /\ objects' = <<>>
                /\ distanceTraveled' = 0
                /\ nextLetterDistance' = 200 * Scale
    /\ IsFrameStep => props.status = store.status /\ prevStatus = store.status

C15_Step ==
    (/\ IsRenderStep
     /\ store.status = "PLAYING" /\ props.status = "PLAYING"
     /\ store.level > props.level /\ store.level > 1) =>
        LET n == Len(objects') - 1
            portal == objects'[n + 1]
        IN  /\ n >= 0
            /\ SubSeq(objects', 1, n) = SelectSeq(objects, LAMBDA o : o.z > -80 * Scale)
            /\ portal.type = "SHOP_PORTAL" /\ portal.active
            /\ portal.x = 0 /\ portal.z = -100 * Scale
            /\ \A i \in Indices(objects) : objects[i].id # portal.id
            /\ nextLetterDistance' =
                 distanceTraveled - 120 * Scale
                 + 200 * Scale + (4 * 200 * Scale * (store.level - 1)) \div 10
            /\ distanceTraveled' = distanceTraveled

\* C15: when the level increases to a value above 1 while PLAYING, the soft
\* reset keeps exactly the entities with forward coordinate > -80 in their
\* order, appends exactly one active ShopPortal at lane coordinate 0 and
\* forward coordinate -100, sets the next-letter threshold to distance - 120
\* + letterInterval(new level), and leaves the cumulative distance as it is.
C15_SoftReset == [][C15_Step]_vars

\* after the level-up to 3 the far entity is gone, the two near ones are
\* kept in order and the portal is last
C15_Witness ==
    /\ props.level = 3 /\ prevLevel = 3 /\ props.status = "PLAYING"
    /\ Len(objects) = 3
    /\ objects[1].id = 2 /\ objects[2].id = 3 /\ ~objects[2].active
    /\ objects[3].type = "SHOP_PORTAL" /\ objects[3].z = -100 * Scale


\* what C16 asks of one call of collectLetter
C16_Step ==
    (lastCall'.n = lastCall.n + 1 /\ lastCall'.op = "collectLetter") =>
        LET index == lastCall'.arg IN
        (index \notin store.collectedLetters
         /\ store.collectedLetters \cup {index} = 0 .. 5) =>
            IF store.level < 3
            THEN /\ store'.level = store.level + 1
                 /\ store'.status = "PLAYING"
                 /\ store'.collectedLetters = {}
                 /\ store'.laneCount =
                      (IF store.laneCount + 2 < 9 THEN store.laneCount + 2 ELSE 9)
            ELSE /\ store'.status = "VICTORY"
                 /\ store'.level = store.level

\* C16: collectLetter of a new index that completes the six indices raises
\* the level by one when level < MAX_LEVEL (status PLAYING, collected set
\* emptied, lane count min(laneCount + 2, 9)) and otherwise sets VICTORY and
\* keeps the level; so by letter collection the level never exceeds
\* MAX_LEVEL and VICTORY comes only at MAX_LEVEL with all six collected.
C16_LevelOrVictory ==
    /\ [](/\ store.level <= 3
          /\ store.status = "VICTORY" =>
                store.level = 3 /\ store.collectedLetters = 0 .. 5)
    /\ [][C16_Step]_vars

\* the sixth letter at level 3 led to VICTORY
C16_Witness ==
    /\ lastCall.op = "collectLetter"
    /\ store.status = "VICTORY" /\ store.level = 3
    /\ store.collectedLetters = 0 .. 5
    /\ store.score >= 5100

\* what C17 asks of one call of takeDamage
C17_Step ==
    (lastCall'.n = lastCall.n + 1 /\ lastCall'.op = "takeDamage") =>
        IF store.shieldActive \/ store.isImmortalityActive
        THEN store' = store
        ELSE IF store.lives > 1
        THEN store' = [store EXCEPT !.lives = store.lives - 1]
        ELSE store' = [store EXCEPT !.lives = 0, !.status = "GAME_OVER", !.speed = 0]

\* C17: takeDamage with neither a running shield timer nor active
\* immortality lowers lives by one and keeps the status when lives > 1, and
\* otherwise sets lives = 0, status GAME_OVER and speed 0; with a running
\* shield timer or active immortality it leaves the store as it is.
C17_TakeDamage == [][C17_Step]_vars

\* two unprotected hits took the last two lives
C17_Witness ==
    /\ lastCall.op = "takeDamage" /\ lastCall.n = 2
    /\ store.status = "GAME_OVER" /\ store.lives = 0 /\ store.speed = 0
    /\ ~store.shieldActive /\ ~store.isImmortalityActive



\* what C18 asks of one frame
C18_Step ==
    (IsFrameStep /\ props.status \in {"MENU", "SHOP", "GAME_OVER", "VICTORY"}) =>
        /\ objects' = objects
        /\ distanceTraveled' = distanceTraveled
        /\ nextLetterDistance' = nextLetterDistance
        /\ store' = store
        /\ nextId' = nextId
        /\ tickLog'.events = <<>>
        /\ tickLog'.fired = <<>> /\ tickLog'.spawned = <<>>
        /\ tickLog'.removed = {}

\* C18: a frame callback that runs while the status is MENU, SHOP, GAME_OVER
\* or VICTORY leaves the registry, every entity's position and flags, the
\* cumulative distance and the next-letter threshold unchanged, emits no
\* event and makes no store callback.
C18_GatedFrameIdle == [][C18_Step]_vars

\* a frame of 100 ms ran in the shop with entities in the registry
C18_Witness ==
    /\ props.status = "SHOP" /\ store.status = "SHOP"
    /\ tickLog.level = 0 /\ tickLog.delta = 100
    /\ \E i \in Indices(objects) : objects[i].active /\ objects[i].type = "GEM"


\* d world units are the floor of the tracker's value
IsFloorOf(d, tracker) == d * Scale <= tracker /\ tracker < (d + 1) * Scale

\* what C19 asks of one step
C19_Step ==
    /\ (/\ IsRenderStep
        /\ store.status \in {"GAME_OVER", "VICTORY"}
        /\ props.status # store.status) =>
            /\ IsFloorOf(store'.distance, distanceTraveled)
            /\ distanceTraveled' = distanceTraveled
    /\ (lastCall' # lastCall /\ store.status \in {"GAME_OVER", "VICTORY"}) =>
            /\ IsFloorOf(store.distance, distanceTraveled)
            /\ distanceTraveled > 0
    /\ (distanceTraveled' = 0 /\ distanceTraveled > 0) =>
            /\ IsRenderStep
            /\ lastCall.op \in {"restartGame", "setStatus"}

\* C19: when the status becomes GAME_OVER or VICTORY, the distance reported
\* to the store is the floor of the cumulative distance travelled in that
\* run, and the report is made before a hard reset zeroes the tracker: the
\* tracker is zeroed only by a render after the final screen's call, and at
\* that call the store already holds the report.
C19_FinalDistanceReported == [][C19_Step]_vars

\* the run ended a fraction beyond 1000 units, 1000 was reported, and the
\* return to the menu then zeroed the tracker
C19_Witness ==
    /\ props.status = "MENU" /\ props = store
    /\ lastCall.op = "setStatus"
    /\ tickLog.dist > 0
    /\ store.distance = 1000
    /\ distanceTraveled = 0 /\ objects = <<>>



\* what C20 asks of one tick
C20_Step ==
    IsTickStep =>
        LET clamped == IF tickLog'.delta < 50 THEN tickLog'.delta ELSE 50
        IN  \A i \in Indices(objects) :
              (objects[i].type = "DRONE" /\ InPost(objects[i].id)) =>
                LET x0 == objects[i].x
                    x1 == PostOf(objects[i].id).x
                    z1 == PostOf(objects[i].id).z
                    gap == playerPos.x - x0
                    far == z1 < playerPos.z - 5 * Scale
                IN  /\ x1 # x0 => objects[i].active /\ far
                    /\ (objects[i].active /\ far) =>
                          /\ (x1 - x0) * gap >= 0
                          /\ Abs(x1 - x0) <= Abs(gap)
                          /\ 2000 * Abs(x1 - x0) - 3 * clamped * Abs(gap) >= 0
                          /\ 2000 * Abs(x1 - x0) - 3 * clamped * Abs(gap) < 2000

\* C20: in each tick an active Drone's lane coordinate changes only if,
\* after its movement step, its forward coordinate is less than playerZ - 5;
\* it then moves toward the player's lane coordinate by the fraction
\* 1.5 * min(delta, 0.05) of the gap (to the grid) and never past it;
\* otherwise, and for an inactive Drone, the lane coordinate is unchanged.
C20_DroneTracking == [][C20_Step]_vars

\* a Drone that started in the lane right of the player has moved toward the
\* player and is still more than 5 units ahead
C20_Witness ==
    /\ tickLog.n >= 1 /\ tickLog.delta = 25
    /\ \E i \in Indices(objects) :
        /\ objects[i].type = "DRONE" /\ objects[i].active
        /\ objects[i].x < LANE_WIDTH /\ objects[i].x > playerPos.x
        /\ objects[i].z < playerPos.z - 5 * Scale



\* an active Drone of the registry at forward coordinate -10 before a tick,
\* the player at forward coordinate 0
AtLead(i) ==
    /\ objects[i].type = "DRONE" /\ objects[i].active
    /\ objects[i].z = -10 * Scale /\ playerPos.z = 0
    /\ InPost(objects[i].id)

\* what C21 says of one tick
C21_Step_Original ==
    IsTickStep =>
        \A i \in Indices(objects) :
            AtLead(i) => PostOf(objects[i].id).x = objects[i].x

\* C21 as stated: with a Drone at forward coordinate -10 and the player at
\* forward coordinate 0, drone tracking is disabled for that tick and the
\* Drone's lane coordinate does not change.
C21_TrackingDisabledAtTen == [][C21_Step_Original]_vars

\* what the amended C21 asks of one tick
C21_Step ==
    IsTickStep =>
        LET clamped == IF tickLog'.delta < 50 THEN tickLog'.delta ELSE 50
        IN  \A i \in Indices(objects) :
              (AtLead(i) /\ PostOf(objects[i].id).z < -5 * Scale) =>
                LET x0 == objects[i].x
                    x1 == PostOf(objects[i].id).x
                    gap == playerPos.x - x0
                IN  /\ (clamped > 0 /\ gap # 0) => x1 # x0
                    /\ (x1 - x0) * gap >= 0
                    /\ Abs(x1 - x0) <= Abs(gap)
                    /\ 2000 * Abs(x1 - x0) - 3 * clamped * Abs(gap) >= 0
                    /\ 2000 * Abs(x1 - x0) - 3 * clamped * Abs(gap) < 2000

\* C21 (amended): with a Drone at forward coordinate -10 and the player at
\* forward coordinate 0, drone tracking is enabled for that tick as long as
\* the movement step leaves the Drone below -5: the lane coordinate moves
\* toward the player's by the fraction 1.5 * min(delta, 0.05) of the gap, so
\* it changes whenever the elapsed time is positive and the lanes differ.
C21_TrackingEnabledAtTen == [][C21_Step]_vars

\* the Drone that started at -10 one lane right of the player has left its
\* lane toward the player in a tick of 25 ms
C21_Witness ==
    /\ tickLog.n = 1 /\ tickLog.delta = 25 /\ tickLog.dist > 0
    /\ \E i \in Indices(objects) :
        /\ objects[i].type = "DRONE" /\ objects[i].active
        /\ objects[i].z = LeadZ + tickLog.dist
        /\ objects[i].x < LANE_WIDTH /\ objects[i].x > playerPos.x



\* what C22 asks of one tick
C22_Step ==
    IsTickStep =>
        LET clamped == IF tickLog'.delta < 50 THEN tickLog'.delta ELSE 50
            step == (9 * props.speed * clamped * Scale) \div 8000
            missileStep == step + (30 * clamped * Scale) \div 1000
        IN  \A i \in Indices(objects) :
              InPost(objects[i].id) =>
                LET o == objects[i]
                    q == PostOf(o.id)
                    moved == o.z + (IF o.type = "MISSILE" THEN missileStep ELSE step)
                    dx == playerPos.x - o.x
                    dz == playerPos.z - moved
                    near == dx * dx + dz * dz < (40 * Scale) * (40 * Scale)
                    pulled == props.magnetActive /\ o.type = "GEM" /\ o.active /\ near
                IN  /\ (pulled /\ clamped > 0 /\ dx # 0) =>
                          /\ Abs(playerPos.x - q.x) < Abs(dx)
                          /\ (playerPos.x - q.x) * dx >= 0
                    /\ ~pulled =>
                          /\ q.y = o.y /\ q.z = moved
                          /\ o.type \notin {"DRONE", "BARRIER"} => q.x = o.x

\* C22: in a tick with positive elapsed time and the magnet timer active, an
\* active Gem whose distance to the player in the lane/forward plane is below
\* 40 and whose lane coordinate differs from the player's ends the tick with
\* its lane coordinate strictly closer to the player's and not beyond it; a
\* Gem at distance 40 or more, an inactive Gem, every non-Gem entity, and
\* every entity while the magnet is off are never moved by magnet pull.
C22_MagnetPull == [][C22_Step]_vars

\* under the magnet a Gem has left its lane toward the player, who stands
\* one unit to the right, and has not been picked up
C22_Witness ==
    /\ tickLog.n = 1 /\ props.magnetActive
    /\ \E i \in Indices(objects) :
        /\ objects[i].type = "GEM" /\ objects[i].active
        /\ objects[i].x > 0 /\ objects[i].x < playerPos.x



\* what C23 asks of one tick
C23_Step ==
    IsTickStep =>
        LET clamped == IF tickLog'.delta < 50 THEN tickLog'.delta ELSE 50
            maxX == (props.laneCount \div 2) * ((22 * Scale) \div 10)
        IN  \A i \in Indices(objects) :
              (objects[i].type = "BARRIER" /\ InPost(objects[i].id)) =>
                LET o == objects[i]
                    q == PostOf(o.id)
                    raw == o.x + o.moveDirection
                                 * ((o.moveSpeed * clamped * Scale) \div 2000)
                IN  IF o.active
                    THEN /\ q.x >= -maxX /\ q.x <= maxX
                         /\ raw > maxX => q.x = maxX /\ q.moveDirection = -1
                         /\ raw < -maxX => q.x = -maxX /\ q.moveDirection = 1
                         /\ (raw >= -maxX /\ raw <= maxX) =>
                                q.x = raw /\ q.moveDirection = o.moveDirection
                    ELSE q.x = o.x /\ q.moveDirection = o.moveDirection

\* C23: after every tick each active Barrier's lane coordinate lies in
\* [-maxX, +maxX] with maxX = floor(laneCount / 2) * LANE_WIDTH; when a step
\* would carry it beyond a boundary it is placed exactly on that boundary and
\* its direction is set to point back into the track, and its direction
\* changes at no other time.
C23_BarrierBounce == [][C23_Step]_vars

\* a Barrier that was heading out of the rightmost lane was put back on the
\* boundary by a tick of positive length and now points inward
C23_Witness ==
    /\ tickLog.n = 1 /\ tickLog.delta > 0
    /\ \E i \in Indices(objects) :
        /\ objects[i].type = "BARRIER" /\ objects[i].active
        /\ objects[i].x = (store.laneCount \div 2) * LANE_WIDTH
        /\ objects[i].moveDirection = -1



\* the types of the entities one tick created
SpawnedTypes(log) == {log.spawned[i].type : i \in Indices(log.spawned)}

\* a tick at level 1 that starts with an empty registry
IsFreshTick == IsTickStep /\ objects = <<>> /\ props.level = 1

\* what C24 says of one tick
C24_Step_Original ==
    IsFreshTick =>
        /\ tickLog'.gate
        /\ (tickLog'.chanceRoll >= 0 /\ tickLog'.chanceRoll < 25) =>
              /\ tickLog'.spawned # <<>>
              /\ SpawnedTypes(tickLog') \subseteq
                    {"GEM", "MAGNET", "SHIELD", "JUMP_PAD", "SPEED_BOOST"}

\* C24 as stated: at level 1 with an empty registry the fallback horizon
\* opens the spawn gate, and when the obstacle-vs-ground-item roll is below
\* the obstacle probability the planner takes the ground-item path: it
\* creates a ground item and never a hazard.
C24_GroundItemBelowChance == [][C24_Step_Original]_vars

\* what the amended C24 asks of one tick
C24_Step ==
    IsFreshTick =>
        /\ tickLog'.gate /\ tickLog'.furthestZ = -20 * Scale
        /\ tickLog'.chanceRoll >= 25 =>
              /\ Len(tickLog'.spawned) = 1
              /\ SpawnedTypes(tickLog') \subseteq {"GEM", "MAGNET", "SHIELD"}
        /\ (tickLog'.chanceRoll >= 0 /\ tickLog'.chanceRoll < 25) =>
              /\ "OBSTACLE" \in SpawnedTypes(tickLog')
              /\ SpawnedTypes(tickLog') \subseteq {"OBSTACLE", "GEM", "MAGNET", "SHIELD"}
              /\ \A i \in Indices(tickLog'.spawned) :
                    tickLog'.spawned[i].type # "OBSTACLE" =>
                        tickLog'.spawned[i].y = (26 * Scale) \div 10

\* C24 (amended): at level 1 with an empty registry the fallback horizon -20
\* opens the spawn gate, and when the obstacle-vs-ground-item roll is at or
\* above the obstacle probability (0.25) the planner takes the ground-item
\* path: it creates exactly one ground item (Gem, Magnet or Shield) and no
\* hazard; when the roll is below the probability it takes the obstacle path
\* and creates standard Obstacles, with at most a bonus item on top of each.
C24_GroundItemAtOrAboveChance == [][C24_Step]_vars

\* the first tick of a run drew an obstacle roll of exactly 0.25 and created
\* a single Magnet
C24_Witness ==
    /\ tickLog.level = 1 /\ tickLog.furthestZ = -20 * Scale /\ tickLog.gate
    /\ tickLog.chanceRoll = 25
    /\ Len(objects) = 1 /\ objects[1].type = "MAGNET"



\* the entities of the registry after a tick that the tick did not create
CarriedOver ==
    {k \in Indices(objects') :
        \A i \in Indices(tickLog'.spawned) : tickLog'.spawned[i].id # objects'[k].id}

\* the spawn horizon of a tick as C25 defines it, from the registry it leaves
Horizon ==
    LET zs == {objects'[k].z : k \in {c \in CarriedOver :
                                        objects'[c].type \notin {"MISSILE", "DRONE"}}}
    IN  IF zs = {} THEN -20 * Scale
        ELSE CHOOSE z \in zs : \A w \in zs : z <= w

\* the entities one spawn decision creates: nothing, one Letter, one ground
\* item, or a row of one kind of hazard with at most a bonus item on each
OneDecision(created) ==
    LET types == {created[i].type : i \in Indices(created)}
        hazards == {i \in Indices(created) : created[i].type \in DamageTypes}
    IN  \/ Len(created) <= 1
        \/ /\ Cardinality({created[i].type : i \in hazards}) = 1
           /\ Cardinality(hazards) <= 3
           /\ Len(created) <= 2 * Cardinality(hazards)
           /\ "LETTER" \notin types

\* what C25 asks of one tick
C25_Step ==
    IsTickStep =>
        /\ tickLog'.furthestZ = Horizon
        /\ tickLog'.gate = (Horizon > -120 * Scale)
        /\ tickLog'.spawned # <<>> => Horizon > -120 * Scale
        /\ Horizon <= -120 * Scale =>
              /\ tickLog'.spawned = <<>>
              /\ tickLog'.skipRoll = -1 /\ tickLog'.chanceRoll = -1
        /\ OneDecision(tickLog'.spawned)

\* C25: the spawn planner makes at most one spawn decision per tick and
\* creates entities only if the spawn horizon is greater than -120, where
\* the horizon is the minimum forward coordinate over the registry entities
\* that are neither Missile nor Drone, or the fallback -20 when there are
\* none; when the horizon is at or beyond -120 nothing is spawned.
C25_SpawnGate == [][C25_Step]_vars

\* a tick of 0 ms left the farthest entity exactly at -120 and spawned
\* nothing
C25_Witness ==
    /\ tickLog.n = MaxTicks /\ tickLog.delta = 0
    /\ tickLog.furthestZ = -120 * Scale /\ ~tickLog.gate
    /\ tickLog.spawned = <<>>
    /\ Len(objects) = 1



\* minGap(level) + 0.3 * speed, as C26 states it (speed in units of 1.125)
ClaimedGap(level, speed) ==
    LET minGap == IF 14 * Scale - (level * Scale) \div 2 > 10 * Scale
                  THEN 14 * Scale - (level * Scale) \div 2 ELSE 10 * Scale
    IN  minGap + (3 * 9 * speed * Scale) \div 80

\* what C26 asks of one tick
C26_Step ==
    IsTickStep =>
        LET gap == ClaimedGap(props.level, props.speed)
            place == IF Horizon - gap < -120 * Scale THEN Horizon - gap
                     ELSE -120 * Scale
        IN  \A i \in Indices(tickLog'.spawned) :
              /\ tickLog'.spawned[i].z = place
              /\ tickLog'.spawned[i].z <= -120 * Scale
              /\ \A k \in CarriedOver :
                    objects'[k].type \notin {"MISSILE", "DRONE"} =>
                        objects'[k].z - tickLog'.spawned[i].z >= gap
              /\ \E k \in Indices(objects') : objects'[k] = tickLog'.spawned[i]

\* C26: every entity the spawn planner creates in a tick is placed at forward
\* coordinate min(horizon - (minGap(level) + 0.3 * speed), -120): it is never
\* nearer to the player than -120, it is at least minGap(level) + 0.3 * speed
\* farther ahead than every registered non-Missile, non-Drone entity, and all
\* entities created in the same tick share this forward coordinate.
C26_SpawnPlace == [][C26_Step]_vars

\* at 90 units/s two or more entities were created together, beyond -120 by
\* the gap to the farthest entity
C26_Witness ==
    /\ tickLog.speed = 80 /\ tickLog.gate
    /\ Len(tickLog.spawned) >= 2
    /\ tickLog.spawned[1].z = tickLog.furthestZ - ClaimedGap(3, 80)
    /\ tickLog.spawned[1].z < -120 * Scale
    /\ tickLog.spawned[2].z = tickLog.spawned[1].z



\* the level-unlock floor of each entity type, as C27 lists them
UnlockFloor(type) ==
    CASE type = "LASER_GATE"  -> 4
      [] type = "BARRIER"     -> 5
      [] type = "SPIKE_FLOOR" -> 3
      [] type = "TURRET"      -> 6
      [] type = "DRONE"       -> 2
      [] type = "ALIEN"       -> 2
      [] type = "JUMP_PAD"    -> 4
      [] type = "SPEED_BOOST" -> 7
      [] OTHER                -> 1

\* C27: the spawn planner never creates an entity type below its
\* level-unlock floor: LaserGate only at level >= 4, Barrier >= 5, SpikeFloor
\* >= 3, Turret >= 6, Drone and Alien >= 2, JumpPad >= 4, SpeedBoost >= 7;
\* at level 1 the only entities it can create are Obstacle, Gem, Letter,
\* Magnet and Shield.
C27_UnlockFloors ==
    /\ \A i \in Indices(tickLog.spawned) :
          tickLog.level >= UnlockFloor(tickLog.spawned[i].type)
    /\ tickLog.level = 1 =>
          SpawnedTypes(tickLog) \subseteq {"OBSTACLE", "GEM", "LETTER", "MAGNET", "SHIELD"}

\* at level 7 the planner created a SpeedBoost
C27_Witness ==
    /\ tickLog.level = 7 /\ tickLog.gate
    /\ \E k \in Indices(objects) :
        objects[k].type = "SPEED_BOOST" /\ objects[k].z <= -SPAWN_DISTANCE



\* of the hundred equally likely cells of the count roll, those for which a
\* standard-obstacle spawn over n lanes holds more than one obstacle, and
\* those for which it holds three
MultiCells(lvl, n) == Cardinality({p \in Rolls : ObstacleCount(lvl, p, n) > 1})

TripleCells(lvl, n) == Cardinality({p \in Rolls : ObstacleCount(lvl, p, n) = 3})

\* C28: for standard obstacles with at least three lanes available, the
\* probability that one spawn contains more than one obstacle, and the
\* probability that it contains three, are non-decreasing in the level: the
\* level of a tick never makes a multi-obstacle spawn less likely than a
\* lower level does.
C28_MultiObstacleMonotone ==
    tickLog.laneCount >= 3 =>
        \A lower \in 1 .. tickLog.level :
            /\ MultiCells(lower, tickLog.laneCount)
                  <= MultiCells(tickLog.level, tickLog.laneCount)
            /\ TripleCells(lower, tickLog.laneCount)
                  <= TripleCells(tickLog.level, tickLog.laneCount)



\* a tick that ran its entity loop while playerObjRef held no object
UnresolvedTick ==
    /\ tickLog'.n = tickLog.n + 1
    /\ ~Gated(props.status)
    /\ ~playerPos'.resolved

C29_Step ==
    UnresolvedTick =>
        /\ \A j \in Indices(tickLog'.events) :
              /\ tickLog'.events[j].kind \notin
                    {"player-hit", "openShop", "collectGem", "collectLetter",
                     "activateMagnet", "activateShield"}
              /\ tickLog'.events[j].kind = "particle-burst"
                    => tickLog'.events[j].arg \notin {"hit", "collect"}
        /\ \A i \in 1 .. Len(objects) :
              \A j \in 1 .. Len(objects') :
                objects'[j].id = objects[i].id /\ objects[i].active
                    => objects'[j].active

\* C29: a tick in which the player transform is not resolved skips
\* collision: it deactivates no entity and emits no player-hit, pickup or
\* shop-entered signal
C29_UnresolvedSkipsCollision == [][C29_Step]_vars


\* the entities the tick carries over, before and after, of a type the
\* callback moves by the world step alone
Moved ==
    {<<i, k>> \in Indices(objects) \X CarriedOver :
        objects'[k].id = objects[i].id /\ objects[i].type # "MISSILE"}

C30_Step ==
    IsTickStep =>
        LET dist == WorldStep(props.speed, SafeDelta(tickLog'.delta))
            half == props.laneCount \div 2
            config == getDifficultyConfig(props.level)
            pulled(i) == objects[i].type = "GEM" /\ props.magnetActive
        IN  /\ \A m \in Moved :
                  /\ ~pulled(m[1]) => objects'[m[2]].z = objects[m[1]].z + dist
                  /\ (objects[m[1]].type = "GEM" /\ ~pulled(m[1]))
                        => objects'[m[2]].x = objects[m[1]].x
            /\ tickLog'.due = IsLetterDue(distanceTraveled + dist, nextLetterDistance)
            /\ \A j \in Indices(tickLog'.spawned) :
                  LET e == tickLog'.spawned[j]
                  IN  /\ e.z = SpawnZ(tickLog'.furthestZ, props.level, props.speed)
                      /\ \E lane \in (-half) .. half : e.x = lane * LANE_WIDTH
                      /\ UnlockFloor(e.type) <= props.level
                      /\ e.type = "LETTER" => e.targetIndex \notin props.collectedLetters
                      /\ e.type = "GEM" =>
                            e.points \in {config.gemBaseValue, config.gemBonusValue}
            /\ (tickLog'.gate /\ tickLog'.due
                    /\ AvailableIndices(props.collectedLetters) # {})
                 => SpawnedTypes(tickLog') = {"LETTER"}

\* C30: a tick moves its entities, pulls gems and makes its spawn decision
\* with the level, lane count, speed, magnet flag and collected letters of
\* its start, whatever a pickup callback of the same tick did to the store
C30_TickSnapshot == [][C30_Step]_vars

\* the sixth letter was picked up in a tick that spawned: the store is a
\* level up, faster and without letters, the spawn is of the level before
C30_Witness ==
    /\ tickLog.spawned # <<>>
    /\ \E j \in Indices(tickLog.events) : tickLog.events[j].kind = "collectLetter"
    /\ store.level = tickLog.level + 1
    /\ store.speed > tickLog.speed
    /\ store.laneCount > tickLog.laneCount
    /\ store.collectedLetters = {} /\ tickLog.collected # {}


\* the entities a tick created: the missiles fired and the planner's spawn
Created(log) ==
    {log.fired[i] : i \in Indices(log.fired)}
        \cup {log.spawned[i] : i \in Indices(log.spawned)}

CreatedIds(log) == {e.id : e \in Created(log)}

C31_Step ==
    IsTickStep =>
        LET clamped == SafeDelta(tickLog'.delta)
            step == WorldStep(props.speed, clamped)
        IN  \* created entities enter the registry as made, behind the others
            /\ \A e \in Created(tickLog') :
                  /\ \E k \in Indices(objects') : objects'[k] = e
                  /\ e.id \notin {objects[i].id : i \in Indices(objects)}
                  /\ e.active /\ ~e.hasFired
                  /\ e.shots = 0 /\ e.outcomes = 0 /\ e.idle = 0
                  /\ SignalsOf(tickLog', e.id) = {}
                  /\ e.id \notin tickLog'.cands
                  /\ MissilesOf(tickLog', e.id) = {}
            /\ \A k, c \in Indices(objects') :
                  (objects'[c].id \in CreatedIds(tickLog')
                     /\ objects'[k].id \notin CreatedIds(tickLog')) => k < c
            \* a missile stands two units behind its shooter as the shooter was moved
            /\ \A j \in Indices(tickLog'.fired) :
                  LET m == tickLog'.fired[j]
                  IN  \E i \in Indices(objects) :
                        /\ objects[i].id = m.by
                        /\ m.x = objects[i].x
                        /\ m.z = objects[i].z + step + 2 * Scale
            \* the spawn is placed from the horizon of the moved registry
            /\ tickLog'.furthestZ = Horizon
            /\ \A j \in Indices(tickLog'.spawned) :
                  tickLog'.spawned[j].z = SpawnZ(Horizon, props.level, props.speed)
            \* what the tick before created is advanced in this one
            /\ \A i \in Indices(objects) :
                  (objects[i].id \in CreatedIds(tickLog) /\ InPost(objects[i].id)
                     /\ objects[i].type \notin {"GEM"}) =>
                        PostOf(objects[i].id).z =
                            objects[i].z + step
                              + (IF objects[i].type = "MISSILE"
                                 THEN MissileStep(clamped) ELSE 0)

\* C31: the missiles a tick fires and the entities its planner places are not
\* advanced, do not fire and are not collision-tested in that tick; the next
\* tick processes them first; the planner runs on the registry as the loop
\* left it, every earlier entity moved
C31_CreatedWaitATick == [][C31_Step]_vars

\* the second tick advanced a missile and a spawn of the first
C31_Witness ==
    /\ tickLog.n = MaxTicks /\ tickLog.delta > 0
    /\ \E k \in Indices(objects) :
          /\ objects[k].type = "MISSILE"
          /\ objects[k].id \notin CreatedIds(tickLog)
    /\ \E k \in Indices(objects) :
          /\ objects[k].type # "MISSILE" /\ objects[k].id > 2
          /\ objects[k].id \notin CreatedIds(tickLog)


Registered(id) == \E k \in Indices(objects) : objects[k].id = id

\* C32: in a run that stays PLAYING and advances in every tick, every entity
\* of the registry is eventually removed from it, a Gem that the magnet holds
\* once the magnet has run out
C32_EventuallyRemoved ==
    \A id \in 1 .. LiveIds : (Registered(id) ~> ~Registered(id))

\* the track is empty again: the planner has placed its entities, the Gem
\* was never collected and every one of them has passed the removal distance
C32_Witness ==
    /\ objects = <<>>
    /\ nextId = LiveIds + 1
    /\ store.status = "PLAYING"
    /\ store.gemsCollected = 0 /\ ~store.magnetActive
    /\ tickLog.n > MaxTicks - LiveTicks + MagnetWindow


\* the shooters of the registry that have not fired
Unfired == {i \in Indices(objects) : /\ objects[i].type \in {"TURRET", "ALIEN"}
                                     /\ objects[i].active /\ ~objects[i].hasFired}

C33_Step ==
    IsTickStep =>
        \A i \in Unfired :
            LET o == objects[i]
                z1 == o.z + WorldStep(props.speed, SafeDelta(tickLog'.delta))
                limit == IF o.type = "TURRET" THEN -80 * Scale ELSE -90 * Scale
                shots == MissilesOf(tickLog', o.id)
            IN  IF z1 > limit
                THEN /\ Cardinality(shots) = 1
                     /\ \A j \in shots :
                           LET m == tickLog'.fired[j]
                           IN  /\ m.type = "MISSILE" /\ m.active
                               /\ m.x = o.x
                               /\ m.z = z1 + 2 * Scale
                               /\ m.y = IF o.type = "TURRET" THEN (8 * Scale) \div 10
                                        ELSE Scale
                               /\ \E k \in Indices(objects') : objects'[k] = m
                     /\ InPost(o.id) => PostOf(o.id).hasFired
                ELSE /\ shots = {}
                     /\ InPost(o.id) => ~PostOf(o.id).hasFired

\* C33: an active Turret (Alien) that has not fired fires in the first tick
\* that moves it beyond -80 (-90): that tick adds exactly one active Missile
\* at its lane coordinate, two units behind it, at height 0.8 (1.0), and
\* sets its has-fired flag; a tick that leaves it at or before the threshold
\* fires nothing
C33_FiresOnCrossing == [][C33_Step]_vars

\* a Turret has fired in the tick that moved it beyond -80
C33_Witness ==
    /\ \E j \in Indices(tickLog.fired), k \in Indices(objects) :
          /\ objects[k].id = tickLog.fired[j].by
          /\ objects[k].type = "TURRET" /\ objects[k].hasFired
          /\ objects[k].z > -80 * Scale /\ objects[k].z <= -80 * Scale + 1440
          /\ tickLog.fired[j].z = objects[k].z + 2 * Scale

\* the chance the comments of lines 570, 585, 598 and 604 give each hazard,
\* in cells of the obstacle roll
DocumentedCells(type) ==
    CASE type = "LASER_GATE"  -> 10
      [] type = "BARRIER"     -> 8
      [] type = "SPIKE_FLOOR" -> 12
      [] type = "TURRET"      -> 8

\* of the hundred equally likely cells of the obstacle roll, those that select
\* the hazard at the level
HazardCells(lvl, type) == Cardinality({r \in Rolls : HazardOf(lvl, r) = type})

\* C34: at every level at which a hazard type is unlocked, the share of
\* obstacle-roll values that selects it equals the chance documented in the
\* code: LaserGate 10% (level >= 4), moving Barrier 8% (level >= 5),
\* SpikeFloor 12% (level >= 3), Turret 8% (level >= 6).
C34_DocumentedShares ==
    \A type \in {"LASER_GATE", "BARRIER", "SPIKE_FLOOR", "TURRET"} :
        tickLog.level >= UnlockFloor(type) =>
            HazardCells(tickLog.level, type) = DocumentedCells(type)

\* a call of buyItem has just returned
Bought == lastCall'.n = lastCall.n + 1 /\ lastCall'.op = "buyItem"

C35_Step ==
    Bought =>
        LET cost == lastCall'.arg
            type == lastCall'.item
        IN  /\ store.score < cost => ~lastCall'.ret /\ store' = store
            /\ store.score >= cost =>
                /\ lastCall'.ret
                /\ store'.score = store.score - cost
                /\ store'.totalScore = store.totalScore
                /\ store'.speed = store.speed
                /\ type = "DOUBLE_JUMP" =>
                      store' = [store EXCEPT !.score = store.score - cost,
                                             !.hasDoubleJump = TRUE]
                /\ type = "MAX_LIFE" =>
                      store' = [store EXCEPT !.score = store.score - cost,
                                             !.maxLives = store.maxLives + 1,
                                             !.lives = store.lives + 1]
                /\ type = "HEAL" =>
                      store' = [store EXCEPT !.score = store.score - cost,
                                             !.lives = IF store.lives < store.maxLives
                                                       THEN store.lives + 1
                                                       ELSE store.maxLives]
                /\ type = "IMMORTAL" =>
                      store' = [store EXCEPT !.score = store.score - cost,
                                             !.hasImmortality = TRUE]
            /\ store.score >= 0 => store'.score >= 0

\* C35: buyItem with score < cost returns false and leaves the whole store
\* unchanged; with score >= cost it returns true, lowers the spendable score
\* by exactly cost, applies the item's effect, and leaves totalScore and speed
\* unchanged, so the score never becomes negative through purchases.
C35_BuyItem == [][C35_Step]_vars

\* a heal was bought at a price above zero with one life left, after gems
\* raised the speed
C35_Witness ==
    /\ lastCall.op = "buyItem" /\ lastCall.item = "HEAL" /\ lastCall.ret
    /\ lastCall.arg > 0
    /\ store.score < store.totalScore
    /\ store.speed > START_SPEED
    /\ store.lives = 2 /\ store.maxLives = 3

\* C40: in every reachable store state 0 <= lives <= maxLives, under any
\* sequence of startGame, restartGame, takeDamage, buyItem with a
\* non-negative cost, collectGem, collectLetter, openShop and closeShop.
C40_LivesWithinMax == 0 <= store.lives /\ store.lives <= store.maxLives

\* after an extra life was bought, the last life was lost
C40_Witness ==
    /\ lastCall.op = "takeDamage"
    /\ store.lives = 0 /\ store.maxLives = 4 /\ store.status = "GAME_OVER"

\* the tick carried the active ShopPortal from ahead of the far edge of its
\* trigger window to the near edge or beyond, where it stays out of reach
\* of a player who does not move forward
PassedPlayer(i) ==
    /\ objects[i].type = "SHOP_PORTAL" /\ objects[i].active
    /\ objects[i].z <= playerPos.z - 2 * Scale
    /\ objects[i].z + tickLog'.dist >= playerPos.z + 2 * Scale

C36_Step ==
    (IsTickStep /\ playerPos.resolved) =>
        \A i \in Indices(objects) :
            PassedPlayer(i) => ShopSignals(tickLog', objects[i].id) # {}

\* C36: after a level-up has injected a ShopPortal, if the run stays Running
\* and the player's forward position does not change, shop-entered is
\* eventually signalled for that portal before the portal is purged, for
\* every world speed and every per-tick elapsed time allowed by the clamp:
\* no tick moves the portal past the player without triggering it.
C36_PortalNeverPasses == [][C36_Step]_vars

\* the j-th signal of the tick is the hit that takes the last life: no
\* immortality, no shield running or picked up earlier in the tick
FatalHit(log, j) ==
    /\ store.lives = 1 /\ ~store.isImmortalityActive /\ ~store.shieldActive
    /\ log.events[j].kind = "player-hit"
    /\ \A k \in 1 .. (j - 1) : log.events[k].kind # "activateShield"

StoreCallbacks == {"collectGem", "collectLetter", "activateMagnet", "activateShield",
                   "openShop"}

C37_Step ==
    IsTickStep =>
        \A j \in Indices(tickLog'.events) :
            FatalHit(tickLog', j) =>
                /\ \A k \in (j + 1) .. Len(tickLog'.events) :
                      tickLog'.events[k].kind \notin StoreCallbacks
                /\ store'.status = "GAME_OVER" /\ store'.speed = 0 /\ store'.lives = 0

\* C37: once a hit during a tick has depleted the last life (status
\* GAME_OVER, speed 0), no entity processed later in that same tick changes
\* the store: score, totalScore, gemsCollected, collected letters, level and
\* power-up timers stay unchanged, the status stays GAME_OVER and the speed
\* stays 0 until an explicit restart.
C37_GameOverIsFinal == [][C37_Step]_vars

\* the player stands on the ground at the centre of a lane that the gate at
\* registry position i spans: the centre lane and (w - 1) \div 2 lanes on
\* either side of it
InSpannedLane(i) ==
    /\ playerPos.y = 0
    /\ \E lane \in -((objects[i].gateWidth - 1) \div 2) .. ((objects[i].gateWidth - 1) \div 2) :
          playerPos.x = objects[i].x + lane * LANE_WIDTH

C38_Step ==
    (IsTickStep /\ playerPos.resolved) =>
        \A i \in Indices(objects) :
            (/\ objects[i].type = "LASER_GATE" /\ objects[i].active
             /\ InSpannedLane(i)
             /\ InZZone(objects[i].z, objects[i].z + tickLog'.dist, playerPos.z)) =>
                HitSignals(tickLog', objects[i].id) # {}

\* C38: a LaserGate with stored gate width w is a hazard in every one of the
\* w lanes it spans around the centre lane: a player standing on the ground
\* in any spanned lane when the gate's forward window reaches the collision
\* zone is hit, not only a player in the centre lane.
C38_GateSpansLanes == [][C38_Step]_vars

\* the entities of the registry after the tick that the planner created in
\* an earlier tick: not created in this tick, no Missile (fired by a Turret
\* or an Alien), no ShopPortal (placed by the level-up)
EarlierSpawns ==
    {k \in Indices(objects') :
        /\ objects'[k].id \notin CreatedIds(tickLog')
        /\ objects'[k].type \notin {"MISSILE", "SHOP_PORTAL"}}

C39_Step ==
    IsTickStep =>
        \A i \in Indices(tickLog'.spawned), k \in EarlierSpawns :
            Abs(objects'[k].z - tickLog'.spawned[i].z)
                >= getDifficultyConfig(tickLog'.level).minGap

\* C39: any two entities created by the spawn planner in different ticks are
\* at least minGap(level) apart in forward coordinate at the moment the later
\* one is created, whatever the type of the earlier one (Drones, which do not
\* count toward the spawn horizon, included).
C39_SpawnsKeepMinGap == [][C39_Step]_vars

============================================================================
